---- MODULE Spec2Model ----
(***************************************************************************)
(* A model of the quantgpt backtesting engine: the trading calendar, the   *)
(* chronological data iterator with its precomputed future windows, the    *)
(* per-strategy portfolio processor, the portfolio aggregation and the     *)
(* PnL attribution of the performance manager.                             *)
(*                                                                         *)
(* Python lists are modelled as TLA+ sequences; Python indices are 0-based *)
(* and the operators below keep 0-based indices, adding 1 on access.       *)
(***************************************************************************)
EXTENDS Integers, Sequences, FiniteSets, TLC

\* ------------------------------------------------------------------------
\* Bounds of the model
\* ------------------------------------------------------------------------
\* Largest timestamp a calendar of the calendar specification may hold.
MaxTime == 6

\* Queries range over one value below and one above the calendar's range.
QueryTimes == 0..(MaxTime + 1)

Directions == {"before", "after", "nearest", "sideways"}

VARIABLES
    cal_timestamps,   \* TradingCalendar.timestamps
    cal_last,         \* the last calendar call: its arguments, outcome and
                      \* the calendar it was made on
    config,           \* GlobalConfig and the trade configuration of the run
    data_dict,        \* DataManager.data_dict
    allocation_table, \* Mode.allocation_table
    precomputed_future_data,  \* the local of iter_data of that name
    iter_index,       \* the 0-based loop index i of iter_data last yielded
    status,           \* "running", "done" (generator exhausted) or "error"
    processors,       \* strategy -> the fields of its PortfolioProcessor
    portfolio_manager,    \* the four aggregates of the PortfolioManager
    pnl_by_symbol,        \* PerformanceManager.pnl_by_symbol
    pnl_by_strategy_by_symbol,  \* PerformanceManager.pnl_by_strategy_by_symbol
    step,             \* the locals of the last _process_timestamp
    observed_data,    \* DataProcessor.observed_data
    live_last,        \* the last _get_clean_live_data call: its argument
                      \* and the live data it returned
    call_log          \* the calls made on a component that is run on its
                      \* own: how many, and the last one's arguments and
                      \* outcome

calendar_vars == <<cal_timestamps, cal_last>>
input_vars    == <<config, data_dict, allocation_table, precomputed_future_data>>
run_vars      == <<iter_index, status, processors, portfolio_manager,
                   pnl_by_symbol, pnl_by_strategy_by_symbol, step,
                   observed_data>>

live_vars     == <<live_last, call_log>>

vars == <<calendar_vars, input_vars, run_vars, live_vars>>

\* ------------------------------------------------------------------------
\* TradingCalendar (src/financial_tools/ft_calendar.py)
\* ------------------------------------------------------------------------
RECURSIVE bisect_left_loop(_, _, _, _)
bisect_left_loop(a, x, lo, hi) ==
    IF lo < hi
    THEN LET mid == (lo + hi) \div 2
         IN  IF a[mid + 1] < x
             THEN bisect_left_loop(a, x, mid + 1, hi)
             ELSE bisect_left_loop(a, x, lo, mid)
    ELSE lo

\* bisect.bisect_left(a, x): the binary search of the standard library.
bisect_left(a, x) == bisect_left_loop(a, x, 0, Len(a))

RECURSIVE bisect_right_loop(_, _, _, _)
bisect_right_loop(a, x, lo, hi) ==
    IF lo < hi
    THEN LET mid == (lo + hi) \div 2
         IN  IF x < a[mid + 1]
             THEN bisect_right_loop(a, x, lo, mid)
             ELSE bisect_right_loop(a, x, mid + 1, hi)
    ELSE lo

\* bisect.bisect_right(a, x)
bisect_right(a, x) == bisect_right_loop(a, x, 0, Len(a))

\* The elements of a list, as a set.
Elems(seq) == {seq[i] : i \in 1..Len(seq)}

Abs(x) == IF x < 0 THEN -x ELSE x

\* Python slice a[lo:hi] with 0 <= lo, hi <= len(a).
Slice(a, lo, hi) == IF lo < hi THEN SubSeq(a, lo + 1, hi) ELSE <<>>

\* What a call returns: a value, or a raised ValueError.
Returned(v) == [raised |-> FALSE, value |-> v]
ValueError  == [raised |-> TRUE, value |-> "ValueError"]
IndexError  == [raised |-> TRUE, value |-> "IndexError"]

\* nearest with the tie of an exact midpoint resolved towards the later
\* timestamp (<= for <).
nearest_tie_after(timestamps, timestamp, direction) ==
    LET index == bisect_left(timestamps, timestamp)
    IN  IF direction = "before"
        THEN IF index = 0 THEN ValueError ELSE Returned(timestamps[index])
        ELSE IF direction = "after"
        THEN IF index = Len(timestamps) THEN ValueError
             ELSE Returned(timestamps[index + 1])
        ELSE IF direction = "nearest"
        THEN IF index = 0
             THEN IF Len(timestamps) = 0 THEN IndexError
                  ELSE Returned(timestamps[1])
             ELSE IF index = Len(timestamps)
             THEN Returned(timestamps[Len(timestamps)])
             ELSE LET before == timestamps[index]
                      after  == timestamps[index + 1]
                  IN  IF after - timestamp <= timestamp - before
                      THEN Returned(after)
                      ELSE Returned(before)
        ELSE ValueError

\* TradingCalendar.nearest
nearest(timestamps, timestamp, direction) ==
    LET index == bisect_left(timestamps, timestamp)
    IN  IF direction = "before"
        THEN IF index = 0
             THEN ValueError
             ELSE Returned(timestamps[index])
        ELSE IF direction = "after"
        THEN IF index = Len(timestamps)
             THEN ValueError
             ELSE Returned(timestamps[index + 1])
        ELSE IF direction = "nearest"
        THEN IF index = 0
             THEN \* timestamps[0] of an empty list is an IndexError
                  IF Len(timestamps) = 0 THEN IndexError
                  ELSE Returned(timestamps[1])
             ELSE IF index = Len(timestamps)
             THEN Returned(timestamps[Len(timestamps)])
             ELSE LET before == timestamps[index]
                      after  == timestamps[index + 1]
                  IN  IF after - timestamp < timestamp - before
                      THEN Returned(after)
                      ELSE Returned(before)
        ELSE ValueError

\* range_search with the upper bound found by bisect_left, which leaves out
\* a timestamp equal to end.
range_search_open_end(timestamps, start, end) ==
    LET start_index == bisect_left(timestamps, start)
        end_index   == bisect_left(timestamps, end)
    IN  Slice(timestamps, start_index, end_index)

\* TradingCalendar.range_search
range_search(timestamps, start, end) ==
    LET start_index == bisect_left(timestamps, start)
        end_index   == bisect_right(timestamps, end)
    IN  Slice(timestamps, start_index, end_index)

\* insort with the new entry put at the end of the list (append for insort).
insort_append(a, x) ==
    a \o <<x>>

\* bisect.insort(a, x): insert x after any entries equal to it.
insort(a, x) ==
    LET i == bisect_right(a, x)
    IN  Slice(a, 0, i) \o <<x>> \o Slice(a, i, Len(a))

\* add_timestamp without the comparison of the distances to the two
\* neighbours: any timestamp between the edges is inserted.
add_timestamp_any_spacing(timestamps, timestamp) ==
    LET index == bisect_left(timestamps, timestamp)
    IN  IF index > 0 /\ index < Len(timestamps)
        THEN Returned(insort(timestamps, timestamp))
        ELSE ValueError

\* TradingCalendar.add_timestamp: the new calendar, or a raised ValueError.
add_timestamp(timestamps, timestamp) ==
    LET index == bisect_left(timestamps, timestamp)
    IN  IF index > 0 /\ index < Len(timestamps)
        THEN IF timestamps[index + 1] - timestamp = timestamp - timestamps[index]
             THEN Returned(insort(timestamps, timestamp))
             ELSE ValueError
        ELSE ValueError

\* remove_timestamp without the membership test: it pops whatever stands at
\* the insertion point.
remove_timestamp_unchecked(timestamps, timestamp) ==
    LET index == bisect_left(timestamps, timestamp)
    IN  IF index < Len(timestamps)
        THEN Returned(Slice(timestamps, 0, index)
                      \o Slice(timestamps, index + 1, Len(timestamps)))
        ELSE ValueError

\* TradingCalendar.remove_timestamp: the new calendar, or a raised ValueError.
remove_timestamp(timestamps, timestamp) ==
    LET index == bisect_left(timestamps, timestamp)
    IN  IF index < Len(timestamps) /\ timestamps[index + 1] = timestamp
        THEN Returned(Slice(timestamps, 0, index)
                      \o Slice(timestamps, index + 1, Len(timestamps)))
        ELSE ValueError

\* The sorted sequence of a finite set of integers.
RECURSIVE SortedSeq(_)
SortedSeq(S) ==
    IF S = {} THEN <<>>
    ELSE LET m == CHOOSE x \in S : \A y \in S : x <= y
         IN  <<m>> \o SortedSeq(S \ {m})

\* TradingCalendar.__init__ sorts the timestamps of the schedule's valid
\* days, which are distinct: any strictly increasing sequence (weekends and
\* holidays leave gaps), possibly empty.
\* No successful remove_timestamp was the call before the last one.
NoRemoval == [removed |-> FALSE, t |-> 0, pre |-> <<>>]

\* What the call being made keeps of the call before it: the timestamp and
\* the calendar of a remove_timestamp that returned.
Removal ==
    IF cal_last.op = "remove_timestamp" /\ ~cal_last.result.raised
    THEN [removed |-> TRUE, t |-> cal_last.t, pre |-> cal_last.pre]
    ELSE NoRemoval

CalendarInit ==
    /\ cal_timestamps \in {SortedSeq(S) : S \in SUBSET (1..MaxTime)}
    /\ cal_last = [op |-> "init", t |-> 0, arg |-> "", result |-> Returned(<<>>),
                   pre |-> cal_timestamps, prior |-> NoRemoval]

Nearest(t, d) ==
    /\ cal_last' = [op |-> "nearest", t |-> t, arg |-> d,
                    result |-> nearest(cal_timestamps, t, d),
                    pre |-> cal_timestamps, prior |-> Removal]
    /\ UNCHANGED <<cal_timestamps, input_vars, run_vars, live_vars>>

RangeSearch(a, b) ==
    /\ cal_last' = [op |-> "range_search", t |-> a, arg |-> b,
                    result |-> Returned(range_search(cal_timestamps, a, b)),
                    pre |-> cal_timestamps, prior |-> Removal]
    /\ UNCHANGED <<cal_timestamps, input_vars, run_vars, live_vars>>

AddTimestamp(t) ==
    LET r == add_timestamp(cal_timestamps, t)
    IN  /\ cal_timestamps' = IF r.raised THEN cal_timestamps ELSE r.value
        /\ cal_last' = [op |-> "add_timestamp", t |-> t, arg |-> "",
                        result |-> IF r.raised THEN r ELSE Returned(<<>>),
                        pre |-> cal_timestamps, prior |-> Removal]
        /\ UNCHANGED <<input_vars, run_vars, live_vars>>

RemoveTimestamp(t) ==
    LET r == remove_timestamp(cal_timestamps, t)
    IN  /\ cal_timestamps' = IF r.raised THEN cal_timestamps ELSE r.value
        /\ cal_last' = [op |-> "remove_timestamp", t |-> t, arg |-> "",
                        result |-> IF r.raised THEN r ELSE Returned(<<>>),
                        pre |-> cal_timestamps, prior |-> Removal]
        /\ UNCHANGED <<input_vars, run_vars, live_vars>>


\* ------------------------------------------------------------------------
\* Bounds and configuration of the backtest
\* ------------------------------------------------------------------------
\* Number of timestamps loaded by the DataManager (keys of data_dict).
NumKeys == 5

\* future_data_lookahead of the global configuration, in days.
Lookahead == 2

\* max_cores of the global configuration: the number of chunks.
MaxCores == 2

\* Longest observed_data_lookback of the global configuration, in days.
MaxLookback == 2

\* Longest holding period of the trade configuration, in days.
MaxHoldDays == 2

SECONDS_IN_DAY == 86400

\* float("inf"), the limit price of a buy: above every price of the model.
Infinity == 1000000

\* trade_size_in_dollars and starting_cash of the trade configuration.
TradeSizeInDollars == 12
StartingCash == 100

\* The symbols of the run, in a fixed order used to enumerate dictionaries.
SymbolList == <<"AAPL", "MSFT">>
Symbols == {SymbolList[i] : i \in 1..Len(SymbolList)}

\* self.strategies of the runner, in list order (their table_name).
StrategyList == <<"alpha", "beta">>
Strategies == {StrategyList[i] : i \in 1..Len(StrategyList)}

\* Python dictionaries are functions; the empty dictionary:
EmptyDict == [k \in {} |-> 0]

\* d with d[k] = v set (added or replaced).
DictSet(d, k, v) == [x \in (DOMAIN d) \cup {k} |-> IF x = k THEN v ELSE d[x]]

\* df.head(n) and df.tail(n) for n >= 0.
DfHead(df, n) == IF n >= Len(df) THEN df ELSE SubSeq(df, 1, n)
DfTail(df, n) == IF n >= Len(df) THEN df ELSE SubSeq(df, Len(df) - n + 1, Len(df))

\* ------------------------------------------------------------------------
\* Loaded data (DataManager.data_dict): timestamp -> symbol -> DAILY_OHLC row
\* ------------------------------------------------------------------------
\* The day of the i-th loaded timestamp: consecutive days, or trading days
\* separated by weekends (gaps of one and three days).
KeyDay(weekends, i) == IF weekends THEN i + 2 * ((i - 1) \div 2) ELSE i

KeysOf(weekends) == [i \in 1..NumKeys |-> KeyDay(weekends, i) * SECONDS_IN_DAY]

\* The DAILY_OHLC row of a symbol on the i-th loaded day.
RowOf(symbol, i, timestamp) ==
    IF symbol = "AAPL"
    THEN [Timestamp |-> timestamp, Open |-> 2 + (i % 3), Close |-> 2 + (i % 3) + i]
    ELSE [Timestamp |-> timestamp, Open |-> 6 - 3 * (i % 2), Close |-> 5 - 3 * (i % 2)]

\* A loaded data set in which every symbol has a row on every loaded day.
FullData(keys) ==
    [t \in Elems(keys) |->
        LET i == CHOOSE j \in 1..Len(keys) : keys[j] = t
        IN  [s \in Symbols |-> RowOf(s, i, t)]]

\* ------------------------------------------------------------------------
\* DataProcessor (src/framework/data/processor.py)
\* ------------------------------------------------------------------------
\* PrependRow with the day's row put behind the later rows.
PrependRow_behind(window, row, lookahead) ==
    IF window # <<>>
    THEN DfHead(window \o <<row>>, lookahead)
    ELSE <<row>>

\* One row put in front of a window kept to lookahead rows; a window that is
\* still empty takes the row untrimmed (processor.py 168-174, 195-212).
PrependRow(window, row, lookahead) ==
    IF window # <<>>
    THEN DfHead(<<row>> \o window, lookahead)
    ELSE <<row>>

\* The window of a symbol in a symbol -> window dictionary, empty if absent.
WindowOf(windows, symbol) ==
    IF symbol \in DOMAIN windows THEN windows[symbol] ELSE <<>>

\* The rows of one timestamp prepended to the windows of their symbols.
PrependDay(windows, day, lookahead) ==
    [s \in (DOMAIN windows) \cup (DOMAIN day) |->
        IF s \in DOMAIN day
        THEN PrependRow(WindowOf(windows, s), day[s], lookahead)
        ELSE windows[s]]

\* The preload loop of _precompute_future_data_worker over the 0-based key
\* indices i, i + 1, ..., stop - 1.
RECURSIVE Preload(_, _, _, _, _, _)
Preload(data, keys, i, stop, lookahead, preload_data) ==
    IF i >= stop THEN preload_data
    ELSE Preload(data, keys, i + 1, stop, lookahead,
                 PrependDay(preload_data, data[keys[i + 1]], lookahead))

\* The backward walk of _precompute_future_data_worker over the 0-based key
\* indices i, i - 1, ..., start_idx. future_data lives across the walk: the
\* window of a symbol is replaced only on days that have a row of it.
RECURSIVE ProcessChunk(_, _, _, _, _, _, _, _)
ProcessChunk(data, keys, i, start_idx, lookahead, preload_data, future_data, chunk_future_data) ==
    IF i < start_idx THEN chunk_future_data
    ELSE LET day     == data[keys[i + 1]]
             windows == PrependDay(preload_data, day, lookahead)
             future  == [s \in (DOMAIN future_data) \cup (DOMAIN day) |->
                            IF s \in DOMAIN day THEN windows[s]
                            ELSE future_data[s]]
         IN  ProcessChunk(data, keys, i - 1, start_idx, lookahead, windows,
                          future,
                          DictSet(chunk_future_data, keys[i + 1], future))

Min(a, b) == IF a < b THEN a ELSE b

\* DataProcessor._precompute_future_data_worker
_precompute_future_data_worker(data, start_idx, end_idx, keys, lookahead) ==
    LET preload_data ==
            Preload(data, keys, end_idx + 1,
                    Min(end_idx + lookahead, Len(keys)), lookahead, EmptyDict)
    IN  ProcessChunk(data, keys, end_idx, start_idx, lookahead, preload_data,
                     EmptyDict, EmptyDict)

\* The merge of the chunks' results, the first writer of a timestamp winning.
RECURSIVE MergeChunks(_, _, _)
MergeChunks(results, i, merged) ==
    IF i > Len(results) THEN merged
    ELSE MergeChunks(results, i + 1,
            [t \in (DOMAIN merged) \cup (DOMAIN results[i]) |->
                IF t \in DOMAIN merged THEN merged[t] ELSE results[i][t]])

\* precompute_future_data_args with the chunk size rounded down.
precompute_future_data_args_floor(keys, num_chunks) ==
    LET chunk_size == Len(keys) \div num_chunks
    IN  [c \in 1..num_chunks |->
            [start_idx |-> (c - 1) * chunk_size,
             end_idx |-> Min(c * chunk_size, Len(keys)) - 1]]

\* The arguments that _precompute_future_data prepares for its workers: the
\* 0-based first and last key index of each chunk.
precompute_future_data_args(keys, num_chunks) ==
    LET chunk_size == (Len(keys) + num_chunks - 1) \div num_chunks
    IN  [c \in 1..num_chunks |->
            [start_idx |-> (c - 1) * chunk_size,
             end_idx |-> Min(c * chunk_size, Len(keys)) - 1]]

\* pool.map of _precompute_future_data_worker over the arguments.
WorkerResults(data, keys, lookahead, max_cores) ==
    LET args == precompute_future_data_args(keys, max_cores)
    IN  [c \in 1..max_cores |->
            _precompute_future_data_worker(data, args[c].start_idx,
                                           args[c].end_idx, keys, lookahead)]

\* DataProcessor._precompute_future_data
_precompute_future_data(data, keys, lookahead, max_cores) ==
    MergeChunks(WorkerResults(data, keys, lookahead, max_cores), 1, EmptyDict)

\* The key whose rows iter_data adds to the observed data at the 0-based loop
\* index i, read one key too far: keys[i + 1], the key after the current
\* timestamp.
ObservedKey_next(keys, i) == keys[i + 2]

\* The key whose rows iter_data adds to the observed data at the 0-based loop
\* index i: timestamp_tm1 = keys[i - 1].
ObservedKey(keys, i) == keys[i]

\* _update_observed_data keeping the first lookback rows (head for tail).
_update_observed_data_head(observed, day, lookback) ==
    [s \in (DOMAIN observed) \cup (DOMAIN day) |->
        IF s \in DOMAIN day
        THEN IF WindowOf(observed, s) # <<>>
             THEN DfHead(WindowOf(observed, s) \o <<day[s]>>, lookback)
             ELSE <<day[s]>>
        ELSE observed[s]]

\* _update_observed_data without the trim to the last lookback rows.
_update_observed_data_untrimmed(observed, day, lookback) ==
    [s \in (DOMAIN observed) \cup (DOMAIN day) |->
        IF s \in DOMAIN day
        THEN WindowOf(observed, s) \o <<day[s]>>
        ELSE observed[s]]

\* DataProcessor._update_observed_data: the rows of one timestamp appended
\* to the windows of their series, each kept to its last lookback rows; a
\* window that is still empty takes the row untrimmed.
_update_observed_data(observed, day, lookback) ==
    [s \in (DOMAIN observed) \cup (DOMAIN day) |->
        IF s \in DOMAIN day
        THEN IF WindowOf(observed, s) # <<>>
             THEN DfTail(WindowOf(observed, s) \o <<day[s]>>, lookback)
             ELSE <<day[s]>>
        ELSE observed[s]]

\* The observed data after the loop indices from + 1 .. to of iter_data.
RECURSIVE AdvanceObserved(_, _, _, _, _, _)
AdvanceObserved(observed, data, keys, lookback, from, to) ==
    IF from >= to THEN observed
    ELSE AdvanceObserved(
            _update_observed_data(observed,
                                  data[ObservedKey(keys, from + 1)], lookback),
            data, keys, lookback, from + 1, to)

\* _build_mock_live_data handing on the whole row of each symbol.
_build_mock_live_data_whole_row(day) == day

\* DataProcessor._build_mock_live_data, for the DAILY_OHLC rows of one
\* timestamp: only Open of each row.
_build_mock_live_data(day) == [s \in DOMAIN day |-> [Open |-> day[s].Open]]

\* DataProcessor._get_clean_live_data for the data of one timestamp, data
\* type -> symbol -> row: _build_mock_live_data keeps the DAILY_OHLC rows
\* only, and the nested dictionary has an entry for a data type only once a
\* symbol was assigned under it.
_get_clean_live_data(data) ==
    [data_type \in {d \in DOMAIN data : d = "DAILY_OHLC" /\ DOMAIN data[d] # {}}
        |-> _build_mock_live_data(data[data_type])]

\* Largest price of the data sets handed to _get_clean_live_data.
MaxPrice == 2

\* The DAILY_OHLC rows and the news rows of those data sets.
OhlcRows ==
    {[Open |-> o, High |-> IF o > c THEN o + 1 ELSE c + 1, Low |-> 1,
      Close |-> c, Volume |-> v] : o \in 1..MaxPrice, c \in 1..MaxPrice,
                                   v \in {0, 5}}

NewsRows == {[Headline |-> h] : h \in {"beat", "miss"}}

\* The functions from a subset of S to T.
PartialFunctions(S, T) == UNION {[D -> T] : D \in SUBSET S}

\* The data of one timestamp: DAILY_OHLC rows of some symbols, with or
\* without news on the first symbol.
TypedDays ==
    {[DAILY_OHLC |-> ohlc] : ohlc \in PartialFunctions(Symbols, OhlcRows)}
    \cup
    {[DAILY_OHLC |-> ohlc, NEWS |-> news] :
        ohlc \in PartialFunctions(Symbols, OhlcRows),
        news \in PartialFunctions({SymbolList[1]}, NewsRows)}

NoLive == [called |-> FALSE, data |-> EmptyDict, live |-> EmptyDict]

\* No call on a component run on its own.
NoCalls == [count |-> 0]

IdleLive == live_last = NoLive /\ call_log = NoCalls

\* One call of _get_clean_live_data in backtest mode at the daily open.
GetCleanLiveData(data) ==
    /\ live_last' = [called |-> TRUE, data |-> data,
                     live |-> _get_clean_live_data(data)]
    /\ UNCHANGED <<calendar_vars, input_vars, run_vars, call_log>>

\* ------------------------------------------------------------------------
\* Numbers: prices and quantities are integers; weights, signal strengths
\* and cost bases are exact fractions [num, den] with den > 0.
\* ------------------------------------------------------------------------
RECURSIVE Gcd(_, _)
Gcd(a, b) == IF b = 0 THEN a ELSE Gcd(b, a % b)

\* The fraction n / d (d # 0) in lowest terms.
Frac(n, d) ==
    LET g  == Gcd(Abs(n), Abs(d))
        sg == IF d < 0 THEN -1 ELSE 1
    IN  [num |-> sg * (n \div g), den |-> sg * (d \div g)]

\* TruncDiv rounding down instead of towards zero.
TruncDiv_floor(n, d) == n \div d

\* int(n / d) for d > 0: truncation towards zero.
TruncDiv(n, d) == IF n >= 0 THEN n \div d ELSE -((-n) \div d)

\* np.sign
Sign(x) == IF x > 0 THEN 1 ELSE IF x < 0 THEN -1 ELSE 0

\* ------------------------------------------------------------------------
\* PortfolioProcessor (src/quantgpt/core/portfolio/processor.py)
\* The state of one processor is a record pp of its fields; error is set
\* once a call has raised.
\* ------------------------------------------------------------------------
Trade(timestamp, symbol, quantity, limit_price, trade_type) ==
    [timestamp |-> timestamp, symbol |-> symbol, quantity |-> quantity,
     limit_price |-> limit_price, trade_type |-> trade_type]

Position(symbol, quantity, cost_basis) ==
    [symbol |-> symbol, quantity |-> quantity, cost_basis |-> cost_basis]

\* _is_valid_trade without the limit of a buy.
_is_valid_trade_any_buy(trade_price, quantity, limit_price) ==
    \/ quantity > 0
    \/ quantity < 0 /\ trade_price >= limit_price

\* PortfolioProcessor._is_valid_trade (trade_price is never None here)
_is_valid_trade(trade_price, quantity, limit_price) ==
    \/ quantity > 0 /\ trade_price <= limit_price
    \/ quantity < 0 /\ trade_price >= limit_price

\* The index of the symbol's position in the dictionary's insertion order,
\* 0 if it has none.
PositionIndex(positions, symbol) ==
    IF \E i \in 1..Len(positions) : positions[i].symbol = symbol
    THEN CHOOSE i \in 1..Len(positions) : positions[i].symbol = symbol
    ELSE 0

\* _update_position_and_cash taking the trade price as the new cost basis
\* of an existing position.
_update_position_and_cash_last_price(pp, trade_symbol, trade_quantity, trade_price) ==
    LET positions == pp.open_positions_by_symbol
        k == PositionIndex(positions, trade_symbol)
        updated ==
            IF k # 0
            THEN LET new_quantity == trade_quantity + positions[k].quantity
                 IN  IF new_quantity = 0
                     THEN Slice(positions, 0, k - 1)
                          \o Slice(positions, k, Len(positions))
                     ELSE [positions EXCEPT ![k] =
                            Position(trade_symbol, new_quantity,
                                     Frac(trade_price, 1))]
            ELSE Append(positions,
                        Position(trade_symbol, trade_quantity,
                                 Frac(trade_price, 1)))
    IN  [pp EXCEPT !.open_positions_by_symbol = updated,
                   !.cash = pp.cash - trade_quantity * trade_price]

\* _update_position_and_cash keeping a position whose quantity returned to
\* zero.
_update_position_and_cash_keep_zero(pp, trade_symbol, trade_quantity, trade_price) ==
    LET positions == pp.open_positions_by_symbol
        k == PositionIndex(positions, trade_symbol)
        updated ==
            IF k # 0
            THEN LET existing_quantity  == positions[k].quantity
                     existing_avg_price == positions[k].cost_basis
                     new_quantity == trade_quantity + existing_quantity
                 IN  IF new_quantity = 0
                     THEN [positions EXCEPT ![k] =
                            Position(trade_symbol, 0, existing_avg_price)]
                     ELSE [positions EXCEPT ![k] =
                            Position(trade_symbol, new_quantity,
                                Frac(existing_avg_price.num * existing_quantity
                                       + trade_price * trade_quantity
                                         * existing_avg_price.den,
                                     existing_avg_price.den * new_quantity))]
            ELSE Append(positions,
                        Position(trade_symbol, trade_quantity,
                                 Frac(trade_price, 1)))
    IN  [pp EXCEPT !.open_positions_by_symbol = updated,
                   !.cash = pp.cash - trade_quantity * trade_price]

\* PortfolioProcessor._update_position_and_cash
_update_position_and_cash(pp, trade_symbol, trade_quantity, trade_price) ==
    LET positions == pp.open_positions_by_symbol
        k == PositionIndex(positions, trade_symbol)
        updated ==
            IF k # 0
            THEN LET existing_quantity  == positions[k].quantity
                     existing_avg_price == positions[k].cost_basis
                     new_quantity == trade_quantity + existing_quantity
                 IN  IF new_quantity = 0
                     THEN Slice(positions, 0, k - 1)
                          \o Slice(positions, k, Len(positions))
                     ELSE [positions EXCEPT ![k] =
                            Position(trade_symbol, new_quantity,
                                Frac(existing_avg_price.num * existing_quantity
                                       + trade_price * trade_quantity
                                         * existing_avg_price.den,
                                     existing_avg_price.den * new_quantity))]
            ELSE Append(positions,
                        Position(trade_symbol, trade_quantity,
                                 Frac(trade_price, 1)))
    IN  [pp EXCEPT !.open_positions_by_symbol = updated,
                   !.cash = pp.cash - trade_quantity * trade_price]

\* _process_position applying the trade's own quantity when it closes it.
_process_position_close_adds(pp, action, trade, live_data) ==
    IF trade.symbol \notin DOMAIN live_data
    THEN [pp EXCEPT !.error = TRUE]
    ELSE LET trade_price == live_data[trade.symbol].Open
         IN  IF _is_valid_trade(trade_price, trade.quantity, trade.limit_price)
             THEN _update_position_and_cash(pp, trade.symbol, trade.quantity,
                                            trade_price)
             ELSE pp

\* PortfolioProcessor._process_position with _get_trade_details: the fill
\* price is the live Open of the symbol; reading Open of a symbol that has
\* no live row raises (float() of an empty dictionary).
_process_position(pp, action, trade, live_data) ==
    IF trade.symbol \notin DOMAIN live_data
    THEN [pp EXCEPT !.error = TRUE]
    ELSE LET trade_price == live_data[trade.symbol].Open
         IN  IF _is_valid_trade(trade_price, trade.quantity, trade.limit_price)
             THEN IF action = "OPEN"
                  THEN _update_position_and_cash(pp, trade.symbol,
                                                 trade.quantity, trade_price)
                  ELSE _update_position_and_cash(pp, trade.symbol,
                                                 -trade.quantity, trade_price)
             ELSE pp

\* PortfolioProcessor._get_trade_size for a SIMPLE_FIXED configuration
_get_trade_size(live_data, symbol, weight) ==
    IF symbol \notin DOMAIN live_data
    THEN 0
    ELSE TruncDiv(weight.num * TradeSizeInDollars,
                  weight.den * live_data[symbol].Open)

\* The first loop of execute_trades: new trades from the signals j, j+1, ...
\* acc holds pp and the lists trades and adj_open_trades.
RECURSIVE OpenFromSignals(_, _, _, _, _, _)
OpenFromSignals(acc, timestamp, live_data, signals, weight, j) ==
    IF j > Len(signals) \/ acc.pp.error THEN acc
    ELSE LET signal == signals[j]
             is_buy_signal  == signal.signal_type = "z_score_long"
             is_sell_signal == signal.signal_type = "z_score_short"
             sign == IF is_buy_signal THEN 1 ELSE -1
             trade_size == _get_trade_size(live_data, signal.symbol, weight)
             quantity == TruncDiv(sign * trade_size * signal.signal_strength.num,
                                  signal.signal_strength.den)
             new_trade == Trade(timestamp, signal.symbol, quantity,
                                IF is_buy_signal THEN Infinity ELSE 0,
                                "simple_fixed")
         IN  IF ~(is_buy_signal \/ is_sell_signal) \/ trade_size = 0
             THEN OpenFromSignals(acc, timestamp, live_data, signals, weight,
                                  j + 1)
             ELSE OpenFromSignals(
                    [pp |-> _process_position(acc.pp, "OPEN", new_trade,
                                              live_data),
                     trades |-> Append(acc.trades, new_trade),
                     adj_open_trades |-> Append(acc.adj_open_trades, new_trade)],
                    timestamp, live_data, signals, weight, j + 1)

\* The second loop of execute_trades: the open trades j, j+1, ... are closed
\* if expired and kept otherwise.
RECURSIVE CloseExpired(_, _, _, _, _, _)
CloseExpired(acc, timestamp, live_data, open_trades, holding_period, j) ==
    IF j > Len(open_trades) \/ acc.pp.error THEN acc
    ELSE LET trade == open_trades[j]
         IN  IF timestamp >= trade.timestamp + holding_period
             THEN LET closed_trade == trade
                  IN  CloseExpired(
                        [pp |-> _process_position(acc.pp, "CLOSE", trade,
                                                  live_data),
                         trades |-> Append(acc.trades, closed_trade),
                         adj_open_trades |-> acc.adj_open_trades],
                        timestamp, live_data, open_trades, holding_period,
                        j + 1)
             ELSE CloseExpired(
                    [acc EXCEPT !.adj_open_trades = Append(@, trade)],
                    timestamp, live_data, open_trades, holding_period, j + 1)

\* execute_trades closing the expired trades among those it has just opened
\* as well.
execute_trades_close_new(pp, timestamp, live_data, signals, weight, holding_period) ==
    LET opened == OpenFromSignals(
                    [pp |-> pp, trades |-> <<>>, adj_open_trades |-> <<>>],
                    timestamp, live_data, signals, weight, 1)
        closed == CloseExpired([opened EXCEPT !.adj_open_trades = <<>>],
                               timestamp, live_data,
                               opened.adj_open_trades \o pp.open_trades,
                               holding_period, 1)
    IN  IF closed.pp.error
        THEN [pp |-> closed.pp, trades |-> <<>>]
        ELSE [pp |-> [closed.pp EXCEPT !.open_trades = closed.adj_open_trades],
              trades |-> closed.trades]

\* PortfolioProcessor.execute_trades: the processor afterwards and the
\* returned list of trades. A raise leaves open_trades as it was.
execute_trades(pp, timestamp, live_data, signals, weight, holding_period) ==
    LET opened == OpenFromSignals(
                    [pp |-> pp, trades |-> <<>>, adj_open_trades |-> <<>>],
                    timestamp, live_data, signals, weight, 1)
        closed == CloseExpired(opened, timestamp, live_data, pp.open_trades,
                               holding_period, 1)
    IN  IF closed.pp.error
        THEN [pp |-> closed.pp, trades |-> <<>>]
        ELSE [pp |-> [closed.pp EXCEPT !.open_trades = closed.adj_open_trades],
              trades |-> closed.trades]

\* PortfolioProcessor.update_positions with _update_positions_df: one row of
\* the positions history per open position; returns the open positions.
update_positions(pp, timestamp) ==
    [pp |-> [pp EXCEPT !.positions_df =
                @ \o [k \in 1..Len(pp.open_positions_by_symbol) |->
                        [Symbol    |-> pp.open_positions_by_symbol[k].symbol,
                         Quantity  |-> pp.open_positions_by_symbol[k].quantity,
                         AvgPrice  |-> pp.open_positions_by_symbol[k].cost_basis,
                         Timestamp |-> timestamp]]],
     positions |-> pp.open_positions_by_symbol]

\* PortfolioProcessor.__init__
NewProcessor ==
    [cash |-> StartingCash, open_positions_by_symbol |-> <<>>,
     open_trades |-> <<>>, positions_df |-> <<>>, error |-> FALSE]

\* ------------------------------------------------------------------------
\* AggregatedTrades and AggregatedPositions
\* (src/financial_tools/types/objects.py) and PortfolioManager
\* (src/quantgpt/core/portfolio/manager.py)
\* ------------------------------------------------------------------------
\* d.get(k): the value, or None
None == [none |-> TRUE]
DictGet(d, k) == IF k \in DOMAIN d THEN d[k] ELSE None

\* update_trade adding every incoming trade to the aggregate.
update_trade_net_all(aggregate, trade) ==
    IF aggregate # None /\ aggregate.trade_type # trade.trade_type
    THEN [error |-> TRUE]
    ELSE IF aggregate # None
    THEN Trade(aggregate.timestamp, aggregate.symbol,
               aggregate.quantity + trade.quantity, aggregate.limit_price,
               aggregate.trade_type)
    ELSE trade

\* AggregatedTrades.update_trade; trades of different types raise ValueError.
update_trade(aggregate, trade) ==
    IF aggregate # None /\ aggregate.trade_type # trade.trade_type
    THEN [error |-> TRUE]
    ELSE IF aggregate # None
    THEN LET quantity ==
                 IF Sign(trade.quantity) # Sign(aggregate.quantity)
                 THEN aggregate.quantity + trade.quantity
                 ELSE IF \/ trade.limit_price = Infinity /\ trade.quantity > 0
                         \/ trade.limit_price = 0 /\ trade.quantity < 0
                      THEN aggregate.quantity + trade.quantity
                      ELSE aggregate.quantity
         IN  Trade(aggregate.timestamp, aggregate.symbol, quantity,
                   aggregate.limit_price, aggregate.trade_type)
    ELSE trade

\* AggregatedPositions.update_position; the average divides by the total
\* quantity and raises ZeroDivisionError when that is 0.
update_position(aggregate, position) ==
    IF aggregate # None
    THEN LET total_quantity == aggregate.quantity + position.quantity
         IN  IF total_quantity = 0
             THEN [error |-> TRUE]
             ELSE Position(position.symbol, total_quantity,
                    Frac(aggregate.cost_basis.num * aggregate.quantity
                           * position.cost_basis.den
                         + position.cost_basis.num * position.quantity
                           * aggregate.cost_basis.den,
                         aggregate.cost_basis.den * position.cost_basis.den
                           * total_quantity))
    ELSE position

IsError(x) == "error" \in DOMAIN x /\ x.error

\* update_trade for the trades, update_position for the positions.
UpdateItem(kind, aggregate, item) ==
    IF kind = "trades" THEN update_trade(aggregate, item)
    ELSE update_position(aggregate, item)

\* One item folded into the total and the per-strategy dictionary of acc.
AggregateItem(acc, kind, strategy, item) ==
    IF acc.error THEN acc
    ELSE LET total == UpdateItem(kind, DictGet(acc.total, item.symbol), item)
             mine  == DictGet(acc.by_strategy, strategy)
             own   == IF mine = None THEN EmptyDict ELSE mine
             by    == UpdateItem(kind, DictGet(own, item.symbol), item)
         IN  IF IsError(total) \/ IsError(by)
             THEN [acc EXCEPT !.error = TRUE]
             ELSE [total |-> DictSet(acc.total, item.symbol, total),
                   by_strategy |-> DictSet(acc.by_strategy, strategy,
                                           DictSet(own, item.symbol, by)),
                   error |-> FALSE]

\* The loops of aggregate(): the items j, j+1, ... of the pairs i, i+1, ...
RECURSIVE Aggregate(_, _, _, _, _)
Aggregate(acc, kind, raw, i, j) ==
    IF i > Len(raw) THEN acc
    ELSE IF j > Len(raw[i].items)
    THEN Aggregate(acc, kind, raw, i + 1, 1)
    ELSE Aggregate(AggregateItem(acc, kind, raw[i].strategy, raw[i].items[j]),
                   kind, raw, i, j + 1)

EmptyAggregate == [total |-> EmptyDict, by_strategy |-> EmptyDict, error |-> FALSE]

\* AggregatedTrades.aggregate over a list of (strategy, trades) pairs
AggregatedTrades(trades) == Aggregate(EmptyAggregate, "trades", trades, 1, 1)

\* AggregatedPositions.aggregate over a list of (strategy, positions) pairs
AggregatedPositions(positions) ==
    Aggregate(EmptyAggregate, "positions", positions, 1, 1)

\* The aggregation again with the Trade and Position objects as references
\* into a heap (a sequence of objects, an object's identity its index), to
\* tell the objects that aggregate() changes. The objects handed in are the
\* heap before the call, in the order of the lists.
RECURSIVE Flatten(_)
Flatten(raw) == IF raw = <<>> THEN <<>> ELSE raw[1].items \o Flatten(Tail(raw))

\* copy() returning the object itself.
copy_alias(heap, id) == [heap |-> heap, id |-> id]

\* Trade.copy and Position.copy: a new object with the same fields.
copy(heap, id) == [heap |-> Append(heap, heap[id]), id |-> Len(heap) + 1]

\* update_trade and update_position on references (0 is None): update_trade
\* assigns the new quantity to the aggregate object before it returns a new
\* Trade, update_position only returns a new Position.
update_ref(kind, heap, aggregate, item) ==
    IF aggregate = 0
    THEN [heap |-> heap, id |-> item, error |-> FALSE]
    ELSE LET value == UpdateItem(kind, heap[aggregate], heap[item])
         IN  IF IsError(value)
             THEN [heap |-> heap, id |-> 0, error |-> TRUE]
             ELSE [heap |-> Append(IF kind = "trades"
                                   THEN [heap EXCEPT ![aggregate].quantity =
                                            value.quantity]
                                   ELSE heap,
                                   value),
                   id |-> Len(heap) + 1, error |-> FALSE]

\* d.get(k) of a dictionary of references.
RefGet(d, k) == IF k \in DOMAIN d THEN d[k] ELSE 0

\* One iteration of the loops of aggregate() for the object item.
AggregateItemRef(acc, kind, strategy, item) ==
    IF acc.error THEN acc
    ELSE LET symbol == acc.heap[item].symbol
             first  == copy(acc.heap, item)
             total  == update_ref(kind, first.heap, RefGet(acc.total, symbol),
                                  first.id)
             mine   == DictGet(acc.by_strategy, strategy)
             own    == IF mine = None THEN EmptyDict ELSE mine
             second == copy(total.heap, item)
             by     == update_ref(kind, second.heap, RefGet(own, symbol),
                                  second.id)
         IN  IF total.error
             THEN [acc EXCEPT !.heap = total.heap, !.error = TRUE]
             ELSE IF by.error
             THEN [acc EXCEPT !.heap = by.heap, !.error = TRUE]
             ELSE [heap |-> by.heap,
                   total |-> DictSet(acc.total, symbol, total.id),
                   by_strategy |-> DictSet(acc.by_strategy, strategy,
                                           DictSet(own, symbol, by.id)),
                   error |-> FALSE]

\* The loops of aggregate(): the items j, j+1, ... of the pairs i, i+1, ...;
\* next is the identity of item j of pair i.
RECURSIVE AggregateRef(_, _, _, _, _, _)
AggregateRef(acc, kind, raw, i, j, next) ==
    IF i > Len(raw) THEN acc
    ELSE IF j > Len(raw[i].items)
    THEN AggregateRef(acc, kind, raw, i + 1, 1, next)
    ELSE AggregateRef(AggregateItemRef(acc, kind, raw[i].strategy, next),
                      kind, raw, i, j + 1, next + 1)

\* An aggregator constructed from the list raw: whether it raised, its two
\* dictionaries, and the objects of raw as they are afterwards.
Aggregator(kind, raw) ==
    LET done == AggregateRef([heap |-> Flatten(raw), total |-> EmptyDict,
                              by_strategy |-> EmptyDict, error |-> FALSE],
                             kind, raw, 1, 1, 1)
    IN  [error |-> done.error,
         total |-> [symbol \in DOMAIN done.total |->
                       done.heap[done.total[symbol]]],
         by_strategy |->
            [strategy \in DOMAIN done.by_strategy |->
                [symbol \in DOMAIN done.by_strategy[strategy] |->
                    done.heap[done.by_strategy[strategy][symbol]]]],
         given |-> SubSeq(done.heap, 1, Len(Flatten(raw)))]

\* ------------------------------------------------------------------------
\* PerformanceManager (src/framework/performance/manager.py)
\* ------------------------------------------------------------------------
PnlRow(timestamp, new_trade, positional) ==
    [Timestamp |-> timestamp, NewTrade |-> new_trade, Positional |-> positional]

\* future_data[...][symbol][column][k] can be read: the symbol has a window
\* with a row of index k.
HasRow(future_data, symbol, k) ==
    symbol \in DOMAIN future_data /\ Len(future_data[symbol]) > k

\* _calculate_new_trade_pnl measuring from the close before the trade
\* instead of the open.
_calculate_new_trade_pnl_from_close(trades, future_data) ==
    [symbol \in DOMAIN trades |->
        LET returns_on_day == future_data[symbol][2].Close
                              - future_data[symbol][1].Close
        IN  returns_on_day * trades[symbol].quantity]

\* PerformanceManager._calculate_new_trade_pnl
_calculate_new_trade_pnl(trades, future_data) ==
    [symbol \in DOMAIN trades |->
        LET returns_on_day == future_data[symbol][1].Close
                              - future_data[symbol][1].Open
        IN  returns_on_day * trades[symbol].quantity]

\* _calculate_positional_pnl with the close-to-close move taken backwards.
_calculate_positional_pnl_reversed(positions, future_data) ==
    [symbol \in DOMAIN positions |->
        LET close_diff == future_data[symbol][1].Close
                          - future_data[symbol][2].Close
        IN  close_diff * positions[symbol].quantity]

\* PerformanceManager._calculate_positional_pnl
_calculate_positional_pnl(positions, future_data) ==
    [symbol \in DOMAIN positions |->
        LET close_diff == future_data[symbol][2].Close
                          - future_data[symbol][1].Close
        IN  close_diff * positions[symbol].quantity]

\* The reads of _calculate_pnl raise on a symbol without the rows it needs.
CalculatePnlRaises(future_data, positions, trades) ==
    \/ \E symbol \in DOMAIN trades : ~HasRow(future_data, symbol, 0)
    \/ \E symbol \in DOMAIN positions : ~HasRow(future_data, symbol, 1)

\* PerformanceManager._calculate_pnl
_calculate_pnl(timestamp, next_timestamp, future_data, positions, trades) ==
    LET new_trade_pnl_t    == _calculate_new_trade_pnl(trades, future_data)
        positional_pnl_tp1 == _calculate_positional_pnl(positions, future_data)
    IN  [calculated_pnl_t |->
            [symbol \in DOMAIN new_trade_pnl_t |->
                PnlRow(timestamp, new_trade_pnl_t[symbol], 0)],
         calculated_pnl_tp1 |->
            [symbol \in DOMAIN positional_pnl_tp1 |->
                PnlRow(next_timestamp, 0, positional_pnl_tp1[symbol])]]

\* One row appended to each symbol's table, the table created if missing.
AppendRows(tables, rows) ==
    [symbol \in (DOMAIN tables) \cup (DOMAIN rows) |->
        IF symbol \in DOMAIN rows
        THEN (IF symbol \in DOMAIN tables THEN tables[symbol] ELSE <<>>)
             \o <<rows[symbol]>>
        ELSE tables[symbol]]

\* AppendPnl with the boundary test next_timestamp <= run_end_date.
AppendPnl_inclusive(tables, calculated, next_timestamp, run_end_date) ==
    LET with_t == AppendRows(tables, calculated.calculated_pnl_t)
    IN  IF next_timestamp <= run_end_date
        THEN AppendRows(with_t, calculated.calculated_pnl_tp1)
        ELSE with_t

\* The appends of _update_total_pnl for one _calculate_pnl result: the
\* current rows always, the next-timestamp rows only before the run's end.
AppendPnl(tables, calculated, next_timestamp, run_end_date) ==
    LET with_t == AppendRows(tables, calculated.calculated_pnl_t)
    IN  IF next_timestamp < run_end_date
        THEN AppendRows(with_t, calculated.calculated_pnl_tp1)
        ELSE with_t

\* A per-strategy dictionary read with a default of the empty dictionary.
OfStrategy(by_strategy, strategy) ==
    IF strategy \in DOMAIN by_strategy THEN by_strategy[strategy] ELSE EmptyDict

\* PerformanceManager._update_total_pnl: the new pnl_by_symbol and
\* pnl_by_strategy_by_symbol. A strategy gets an entry when a row of it is
\* appended.
_update_total_pnl(pnl, by_strategy, timestamp, next_timestamp, future_data, positions, aggregated_positions_by_strategy, trades, aggregated_trades_by_strategy, run_end_date) ==
    LET unique_strategies == (DOMAIN aggregated_positions_by_strategy)
                             \cup (DOMAIN aggregated_trades_by_strategy)
        Calculated(strategy) ==
            _calculate_pnl(timestamp, next_timestamp, future_data,
                OfStrategy(aggregated_positions_by_strategy, strategy),
                OfStrategy(aggregated_trades_by_strategy, strategy))
        Appended(strategy) ==
            AppendPnl(OfStrategy(by_strategy, strategy), Calculated(strategy),
                      next_timestamp, run_end_date)
        touched == {strategy \in unique_strategies :
                        Appended(strategy) # EmptyDict}
    IN  [pnl_by_symbol |->
            AppendPnl(pnl, _calculate_pnl(timestamp, next_timestamp,
                                          future_data, positions, trades),
                      next_timestamp, run_end_date),
         pnl_by_strategy_by_symbol |->
            [strategy \in (DOMAIN by_strategy) \cup touched |->
                IF strategy \in touched THEN Appended(strategy)
                ELSE by_strategy[strategy]]]

\* pd.concat of the tables of a dictionary, in the order of SymbolList.
RECURSIVE ConcatTables(_, _)
ConcatTables(pnl_obj, i) ==
    IF i > Len(SymbolList) THEN <<>>
    ELSE (IF SymbolList[i] \in DOMAIN pnl_obj THEN pnl_obj[SymbolList[i]]
          ELSE <<>>) \o ConcatTables(pnl_obj, i + 1)

\* The sum of a column over the rows i, i+1, ... of a group.
RECURSIVE GroupSum(_, _, _, _)
GroupSum(df, timestamp, column, i) ==
    IF i > Len(df) THEN 0
    ELSE (IF df[i].Timestamp = timestamp THEN df[i][column] ELSE 0)
         + GroupSum(df, timestamp, column, i + 1)

\* _calc_aggregated_pnl keeping the first row of each group instead of the
\* group's sum.
_calc_aggregated_pnl_first_row(pnl_obj) ==
    IF DOMAIN pnl_obj = {}
    THEN ValueError
    ELSE LET combined_df == ConcatTables(pnl_obj, 1)
             groups == SortedSeq({combined_df[i].Timestamp :
                                     i \in 1..Len(combined_df)})
             first(timestamp) ==
                 CHOOSE i \in 1..Len(combined_df) :
                    /\ combined_df[i].Timestamp = timestamp
                    /\ \A k \in 1..(i - 1) :
                          combined_df[k].Timestamp # timestamp
         IN  Returned([g \in 1..Len(groups) |-> combined_df[first(groups[g])]])

\* PerformanceManager._calc_aggregated_pnl: the concatenated tables grouped
\* by Timestamp and summed, one row per timestamp in ascending order;
\* pd.concat of no table raises ValueError.
_calc_aggregated_pnl(pnl_obj) ==
    IF DOMAIN pnl_obj = {}
    THEN ValueError
    ELSE LET combined_df == ConcatTables(pnl_obj, 1)
             groups == SortedSeq({combined_df[i].Timestamp :
                                     i \in 1..Len(combined_df)})
         IN  Returned([g \in 1..Len(groups) |->
                PnlRow(groups[g],
                       GroupSum(combined_df, groups[g], "NewTrade", 1),
                       GroupSum(combined_df, groups[g], "Positional", 1))])

\* ------------------------------------------------------------------------
\* BacktestMode (src/quantgpt/core/runner.py) driving DataProcessor.iter_data
\* ------------------------------------------------------------------------
Signal(timestamp, symbol, signal_type, signal_strength, strategy_name) ==
    [timestamp |-> timestamp, symbol |-> symbol, signal_type |-> signal_type,
     signal_strength |-> signal_strength, strategy_name |-> strategy_name]

\* What Strategy.generate_signals may return (the strategies are external):
\* no signal, or one signal out of a few; both strategies may go short AAPL,
\* alpha may go long AAPL and beta long MSFT at half strength.
SignalChoices(timestamp, strategy_name) ==
    {<<>>,
     <<Signal(timestamp, "AAPL", "z_score_short", Frac(1, 1), strategy_name)>>,
     IF strategy_name = "alpha"
     THEN <<Signal(timestamp, "AAPL", "z_score_long", Frac(1, 1),
                   strategy_name)>>
     ELSE <<Signal(timestamp, "MSFT", "z_score_long", Frac(1, 2),
                   strategy_name)>>}

\* The allocation tables of the runs: every loaded day allocates both
\* strategies, alpha with weight 1 and beta with weight 1/2.
AllocationTables(keys) ==
    {[t \in Elems(keys) |->
        [name \in Strategies |->
            [weight |-> IF name = "alpha" THEN Frac(1, 1) ELSE Frac(1, 2)]]]}

\* The run windows: the run starts on the first or the third loaded day and
\* ends on the last loaded day, the day before it or the day after it.
RunStartDates(keys) == {keys[1], keys[3]}
RunEndDates(keys) ==
    {keys[Len(keys) - 1], keys[Len(keys)], keys[Len(keys)] + SECONDS_IN_DAY}

\* keys = list(self.data_manager.data_dict.keys()), sorted by the DataManager
Keys == SortedSeq(DOMAIN data_dict)

\* Yielded without the test of the run's start.
Yielded_no_start(i) ==
    /\ 1 <= i /\ i <= Len(Keys) - 2
    /\ Keys[i + 1] < config.run_end_date

\* The loop indices of iter_data that are yielded: interior timestamps inside
\* [run_start_date, run_end_date).
Yielded(i) ==
    /\ 1 <= i /\ i <= Len(Keys) - 2
    /\ config.run_start_date <= Keys[i + 1]
    /\ Keys[i + 1] < config.run_end_date

\* IsNextYield for any later index that is yielded.
IsNextYield_any(from, i) == i > from /\ Yielded(i)

\* i is the next loop index that iter_data yields after the index from.
IsNextYield(from, i) ==
    /\ i > from
    /\ Yielded(i)
    /\ \A j \in (from + 1)..(i - 1) : ~Yielded(j)

\* BacktestMode.run goes on while iter_data has a tuple to yield and no step
\* has raised, and returns when the generator is exhausted.
StatusAfter(from) ==
    IF \E i \in 1..(Len(Keys) - 2) : IsNextYield(from, i)
    THEN "running" ELSE "done"

NoStep ==
    [timestamp |-> 0, next_timestamp |-> 0, future_data |-> EmptyDict,
     signals_by_strategy |-> <<>>, trades_by_strategy |-> <<>>,
     positions_by_strategy |-> <<>>, observed_data |-> EmptyDict,
     calculated |-> [calculated_pnl_t |-> EmptyDict,
                     calculated_pnl_tp1 |-> EmptyDict],
     raised |-> "none", calls |-> <<>>]

NoAggregates ==
    [aggregated_positions |-> EmptyDict, aggregated_trades |-> EmptyDict,
     aggregated_positions_by_strategy |-> EmptyDict,
     aggregated_trades_by_strategy |-> EmptyDict]

\* The runs: the days without gaps are run with a lookback of one day, the
\* days with weekends with the longest lookback.
BacktestInit ==
    /\ \E weekends \in BOOLEAN :
         /\ data_dict = FullData(KeysOf(weekends))
         /\ \E hold_days \in 0..MaxHoldDays,
               run_start_date \in RunStartDates(Keys),
               run_end_date \in RunEndDates(Keys) :
              config = [holding_period |-> hold_days * SECONDS_IN_DAY,
                        run_start_date |-> run_start_date,
                        run_end_date |-> run_end_date,
                        lookback |-> IF weekends THEN MaxLookback ELSE 1,
                        lookahead |-> Lookahead, max_cores |-> MaxCores]
    /\ allocation_table \in AllocationTables(Keys)
    /\ precomputed_future_data =
         _precompute_future_data(data_dict, Keys, config.lookahead,
                                 config.max_cores)
    /\ iter_index = 0
    /\ status = StatusAfter(0)
    /\ processors = [name \in Strategies |-> NewProcessor]
    /\ portfolio_manager = NoAggregates
    /\ pnl_by_symbol = EmptyDict
    /\ pnl_by_strategy_by_symbol = EmptyDict
    /\ step = NoStep
    /\ observed_data = IF StatusAfter(0) = "done"
                       THEN AdvanceObserved(EmptyDict, data_dict, Keys,
                                            config.lookback, 0, Len(Keys) - 2)
                       ELSE EmptyDict

\* The allocation table read as a dictionary that has an empty entry for
\* every day it lacks.
Allocation_default(timestamp) ==
    IF timestamp \in DOMAIN allocation_table
    THEN allocation_table[timestamp] ELSE EmptyDict

\* self.allocation_table[timestamp], None for a day that the table lacks.
Allocation(timestamp) == DictGet(allocation_table, timestamp)

\* One call that _process_timestamp makes, directly or through
\* _process_signals and _process_strategies.
Call(name, strategy, timestamp) ==
    [call |-> name, strategy |-> strategy, timestamp |-> timestamp]

\* BacktestMode._process_signals: the strategies of the day's allocation, in
\* list order, each with the arguments its generate_signals was given and
\* the signals it generated.
RECURSIVE _process_signals(_, _, _, _)
_process_signals(timestamp, observed, generated, k) ==
    IF k > Len(StrategyList) THEN <<>>
    ELSE (IF StrategyList[k] \in DOMAIN Allocation(timestamp)
          THEN <<[strategy |-> StrategyList[k],
                  given |-> [timestamp |-> timestamp,
                             observed_data |-> observed],
                  signals |-> generated[StrategyList[k]]]>>
          ELSE <<>>)
         \o _process_signals(timestamp, observed, generated, k + 1)

\* BacktestMode._process_strategies from the k-th entry on, with
\* _execute_signals_and_update_positions: acc holds the processors and the
\* two lists built so far.
RECURSIVE _process_strategies(_, _, _, _, _)
_process_strategies(acc, timestamp, mock_live_data, signals_by_strategy, k) ==
    IF k > Len(signals_by_strategy) \/ acc.error THEN acc
    ELSE LET name   == signals_by_strategy[k].strategy
             weight == Allocation(timestamp)[name].weight
             traded == execute_trades(acc.processors[name], timestamp,
                                      mock_live_data,
                                      signals_by_strategy[k].signals, weight,
                                      config.holding_period)
             updated == update_positions(traded.pp, timestamp)
         IN  IF traded.pp.error
             THEN [acc EXCEPT !.processors[name] = traded.pp, !.error = TRUE,
                              !.calls = Append(@, Call("execute_trades", name,
                                                       timestamp))]
             ELSE _process_strategies(
                    [processors |-> [acc.processors EXCEPT ![name] = updated.pp],
                     calls |-> acc.calls
                                \o <<Call("execute_trades", name, timestamp),
                                     Call("update_positions", name, timestamp)>>,
                     trades_by_strategy |->
                        IF traded.trades # <<>>
                        THEN Append(acc.trades_by_strategy,
                                    [strategy |-> name, items |-> traded.trades])
                        ELSE acc.trades_by_strategy,
                     positions_by_strategy |->
                        IF updated.positions # <<>>
                        THEN Append(acc.positions_by_strategy,
                                    [strategy |-> name,
                                     items |-> updated.positions])
                        ELSE acc.positions_by_strategy,
                     error |-> FALSE],
                    timestamp, mock_live_data, signals_by_strategy, k + 1)

\* PerformanceManager._update_total_pnl reads both per-strategy dictionaries
\* of the PortfolioManager under every strategy of either: the nested
\* default dictionaries gain an empty entry for a strategy they lacked.
Vivified(by_strategy, names) ==
    [name \in (DOMAIN by_strategy) \cup names |-> OfStrategy(by_strategy, name)]

\* PortfolioManager.update: the four aggregates, or error when one of the
\* aggregators raised (nothing is assigned then).
PortfolioManagerUpdate(trades_by_strategy, positions_by_strategy) ==
    LET trade_aggregator    == AggregatedTrades(trades_by_strategy)
        position_aggregator == AggregatedPositions(positions_by_strategy)
    IN  [aggregated_positions |-> position_aggregator.total,
         aggregated_positions_by_strategy |-> position_aggregator.by_strategy,
         aggregated_trades |-> trade_aggregator.total,
         aggregated_trades_by_strategy |-> trade_aggregator.by_strategy,
         error |-> trade_aggregator.error \/ position_aggregator.error]

\* The four aggregates of a PortfolioManagerUpdate result.
AggregatesOf(u) ==
    [aggregated_positions |-> u.aggregated_positions,
     aggregated_trades |-> u.aggregated_trades,
     aggregated_positions_by_strategy |-> u.aggregated_positions_by_strategy,
     aggregated_trades_by_strategy |-> u.aggregated_trades_by_strategy]

\* One iteration of BacktestMode.run: iter_data advances to its next yield
\* i and _process_timestamp handles the tuple, the strategies having
\* generated the signals of generated.
ProcessTimestamp(i, generated) ==
    LET timestamp      == Keys[i + 1]
        next_timestamp == Keys[i + 2]
        mock_live_data == _get_clean_live_data([DAILY_OHLC |-> data_dict[timestamp]]).DAILY_OHLC
        future_data    == precomputed_future_data[timestamp]
        observed       == AdvanceObserved(observed_data, data_dict, Keys,
                                          config.lookback, iter_index, i)
        this_step == [NoStep EXCEPT !.timestamp = timestamp,
                                    !.next_timestamp = next_timestamp,
                                    !.observed_data = observed,
                                    !.future_data = future_data]
    IN  /\ iter_index' = i
        /\ UNCHANGED <<calendar_vars, input_vars, live_vars>>
        /\ IF Allocation(timestamp) = None
           THEN \* _process_signals raises before any strategy is called
                /\ status' = "error"
                /\ step' = [this_step EXCEPT !.raised = "_process_signals"]
                /\ UNCHANGED <<processors, portfolio_manager, pnl_by_symbol,
                               pnl_by_strategy_by_symbol>>
           ELSE
           \E signals_by_strategy \in {_process_signals(timestamp, observed,
                                                      generated, 1)} :
           \E processed \in {_process_strategies(
                        [processors |-> processors, trades_by_strategy |-> <<>>,
                         positions_by_strategy |-> <<>>, error |-> FALSE,
                         calls |-> [k \in 1..Len(signals_by_strategy) |->
                                      Call("generate_signals",
                                           signals_by_strategy[k].strategy,
                                           timestamp)]],
                        timestamp, mock_live_data, signals_by_strategy, 1)} :
           \E aggregated \in {PortfolioManagerUpdate(
                                processed.trades_by_strategy,
                                processed.positions_by_strategy)} :
           \E traded_step \in {[this_step EXCEPT
                              !.signals_by_strategy = signals_by_strategy,
                              !.trades_by_strategy = processed.trades_by_strategy,
                              !.positions_by_strategy =
                                  processed.positions_by_strategy]} :
           /\ processors' = processed.processors
           /\ IF processed.error
              THEN \* execute_trades raised in one of the processors
                   /\ status' = "error"
                   /\ step' = [this_step EXCEPT
                                 !.signals_by_strategy = signals_by_strategy,
                                 !.raised = "execute_trades",
                                 !.calls = processed.calls]
                   /\ UNCHANGED <<portfolio_manager, pnl_by_symbol,
                                  pnl_by_strategy_by_symbol>>
              ELSE IF aggregated.error
              THEN \* PortfolioManager.update raised before assigning anything
                   /\ status' = "error"
                   /\ step' = [traded_step EXCEPT
                                 !.raised = "portfolio_manager.update",
                                 !.calls = Append(processed.calls,
                                             Call("portfolio_manager.update",
                                                  "", timestamp))]
                   /\ UNCHANGED <<portfolio_manager, pnl_by_symbol,
                                  pnl_by_strategy_by_symbol>>
              ELSE IF CalculatePnlRaises(future_data,
                                         aggregated.aggregated_positions,
                                         aggregated.aggregated_trades)
              THEN \* the first _calculate_pnl raised before any row was
                   \* appended
                   /\ status' = "error"
                   /\ portfolio_manager' = AggregatesOf(aggregated)
                   /\ step' = [traded_step EXCEPT
                                 !.raised = "performance_manager.update",
                                 !.calls = processed.calls
                                   \o <<Call("portfolio_manager.update", "",
                                             timestamp),
                                        Call("performance_manager.update", "",
                                             timestamp)>>]
                   /\ UNCHANGED <<pnl_by_symbol, pnl_by_strategy_by_symbol>>
              ELSE
              \E updated \in {_update_total_pnl(
                        pnl_by_symbol, pnl_by_strategy_by_symbol,
                        timestamp, next_timestamp, future_data,
                        aggregated.aggregated_positions,
                        aggregated.aggregated_positions_by_strategy,
                        aggregated.aggregated_trades,
                        aggregated.aggregated_trades_by_strategy,
                        config.run_end_date)} :
              LET unique_strategies ==
                      (DOMAIN aggregated.aggregated_positions_by_strategy)
                      \cup (DOMAIN aggregated.aggregated_trades_by_strategy)
              IN  /\ status' = StatusAfter(i)
                  /\ portfolio_manager' =
                       [AggregatesOf(aggregated) EXCEPT
                          !.aggregated_positions_by_strategy =
                              Vivified(@, unique_strategies),
                          !.aggregated_trades_by_strategy =
                              Vivified(@, unique_strategies)]
                  /\ pnl_by_symbol' = updated.pnl_by_symbol
                  /\ pnl_by_strategy_by_symbol' =
                       updated.pnl_by_strategy_by_symbol
                  /\ step' = [traded_step EXCEPT
                                !.calls = processed.calls
                                  \o <<Call("portfolio_manager.update", "",
                                            timestamp),
                                       Call("performance_manager.update", "",
                                            timestamp)>>,
                                !.calculated =
                                    _calculate_pnl(timestamp, next_timestamp,
                                        future_data,
                                        aggregated.aggregated_positions,
                                        aggregated.aggregated_trades)]
        /\ observed_data' =
             IF status' = "running" \/ status' = "error" THEN observed
             ELSE \* the generator runs on to its end
                  AdvanceObserved(observed, data_dict, Keys, config.lookback,
                                  i, Len(Keys) - 2)

RunStep ==
    /\ status = "running"
    /\ \E i \in 1..(Len(Keys) - 2) :
         /\ IsNextYield(iter_index, i)
         /\ \E generated \in
                 [Strategies -> UNION {SignalChoices(Keys[i + 1], name) :
                                           name \in Strategies}] :
              /\ \A name \in Strategies :
                    generated[name] \in SignalChoices(Keys[i + 1], name)
              /\ ProcessTimestamp(i, generated)

\* The calendar specification leaves the run in its initial state and the
\* backtest specification leaves the calendar alone.
IdleRun ==
    /\ config = [holding_period |-> 0, run_start_date |-> 0, run_end_date |-> 0,
                 lookback |-> 1, lookahead |-> Lookahead,
                 max_cores |-> MaxCores]
    /\ data_dict = EmptyDict
    /\ allocation_table = EmptyDict
    /\ precomputed_future_data = EmptyDict
    /\ iter_index = 0
    /\ status = "done"
    /\ processors = [name \in Strategies |-> NewProcessor]
    /\ portfolio_manager = NoAggregates
    /\ pnl_by_symbol = EmptyDict
    /\ pnl_by_strategy_by_symbol = EmptyDict
    /\ step = NoStep
    /\ observed_data = EmptyDict

IdleCalendar ==
    /\ cal_timestamps = <<>>
    /\ cal_last = [op |-> "init", t |-> 0, arg |-> "",
                   result |-> Returned(<<>>), pre |-> <<>>,
                   prior |-> NoRemoval]

Init == BacktestInit /\ IdleCalendar /\ IdleLive

CalendarNext ==
    \/ \E t \in QueryTimes, d \in Directions : Nearest(t, d)
    \/ \E a \in QueryTimes, b \in QueryTimes : RangeSearch(a, b)
    \/ \E t \in QueryTimes : AddTimestamp(t)
    \/ \E t \in QueryTimes : RemoveTimestamp(t)

InitCal == CalendarInit /\ IdleRun /\ IdleLive

SpecCal == InitCal /\ [][CalendarNext]_vars

InitLive == IdleCalendar /\ IdleRun /\ IdleLive

LiveNext == \E data \in TypedDays : GetCleanLiveData(data)

SpecLive == InitLive /\ [][LiveNext]_vars

\* Longest future_data_lookahead of the precomputations checked on their
\* own, in days.
MaxLookahead == 3

\* A loaded data set of n days in which the first symbol has a row on every
\* day and the second one on the days that are not in absent.
HoledData(keys, absent) ==
    [t \in Elems(keys) |->
        LET i == CHOOSE j \in 1..Len(keys) : keys[j] = t
        IN  [s \in {x \in Symbols : x = SymbolList[1] \/ i \notin absent} |->
                RowOf(s, i, t)]]

\* iter_data before its precomputation, for any loaded data, lookahead and
\* number of cores.
InitFuture ==
    /\ IdleCalendar /\ IdleLive
    /\ \E weekends \in BOOLEAN, n \in 0..NumKeys :
          \E absent \in SUBSET (1..n) :
             data_dict = HoledData(SubSeq(KeysOf(weekends), 1, n), absent)
    /\ \E lookahead \in 1..MaxLookahead, max_cores \in 1..MaxCores :
          config = [holding_period |-> 0, run_start_date |-> 0,
                    run_end_date |-> 0, lookback |-> 1,
                    lookahead |-> lookahead, max_cores |-> max_cores]
    /\ allocation_table = EmptyDict
    /\ precomputed_future_data = EmptyDict
    /\ iter_index = 0
    /\ status = "precompute"
    /\ processors = [name \in Strategies |-> NewProcessor]
    /\ portfolio_manager = NoAggregates
    /\ pnl_by_symbol = EmptyDict
    /\ pnl_by_strategy_by_symbol = EmptyDict
    /\ step = NoStep
    /\ observed_data = EmptyDict

\* iter_data up to its loop: the future data of every key is precomputed.
PrecomputeFutureData ==
    /\ status = "precompute"
    /\ precomputed_future_data' =
         _precompute_future_data(data_dict, Keys, config.lookahead,
                                 config.max_cores)
    /\ status' = "precomputed"
    /\ UNCHANGED <<calendar_vars, live_vars, config, data_dict,
                   allocation_table, iter_index, processors,
                   portfolio_manager, pnl_by_symbol,
                   pnl_by_strategy_by_symbol, step, observed_data>>

SpecFuture == InitFuture /\ [][PrecomputeFutureData]_vars

\* Highest Open price of the executions checked on their own.
MaxOpen == 8

\* The allocation weights and the signal strengths of those executions.
Weights == {Frac(1, 1), Frac(1, 2), Frac(1, 3)}
Strengths == {Frac(1, 4), Frac(1, 2), Frac(3, 4), Frac(1, 1)}

\* A run about to execute the signals of its one strategy on a day, for any
\* Open price of the symbol and any allocation weight of the strategy.
InitExecute ==
    /\ IdleCalendar /\ IdleLive
    /\ \E open \in 1..MaxOpen :
          data_dict = [t \in {SECONDS_IN_DAY} |->
                         [s \in {SymbolList[1]} |->
                            [Timestamp |-> t, Open |-> open, Close |-> open]]]
    /\ \E weight \in Weights :
          allocation_table = [t \in {SECONDS_IN_DAY} |->
                                [name \in {StrategyList[1]} |->
                                    [weight |-> weight]]]
    /\ config = [holding_period |-> SECONDS_IN_DAY, run_start_date |-> 0,
                 run_end_date |-> 0, lookback |-> 1, lookahead |-> Lookahead,
                 max_cores |-> MaxCores]
    /\ precomputed_future_data = EmptyDict
    /\ iter_index = 0
    /\ status = "execute"
    /\ processors = [name \in Strategies |-> NewProcessor]
    /\ portfolio_manager = NoAggregates
    /\ pnl_by_symbol = EmptyDict
    /\ pnl_by_strategy_by_symbol = EmptyDict
    /\ step = NoStep
    /\ observed_data = EmptyDict

\* BacktestMode._process_strategies for the one signal that the strategy
\* generated on the day.
ExecuteSignal(signal_type, signal_strength) ==
    /\ status = "execute"
    /\ \E timestamp \in DOMAIN data_dict :
         \E signals_by_strategy \in
              {<<[strategy |-> StrategyList[1],
                  given |-> [timestamp |-> timestamp,
                             observed_data |-> observed_data],
                  signals |-> <<Signal(timestamp, SymbolList[1], signal_type,
                                       signal_strength, StrategyList[1])>>]>>} :
           \E processed \in
                {_process_strategies(
                    [processors |-> processors, trades_by_strategy |-> <<>>,
                     positions_by_strategy |-> <<>>, error |-> FALSE,
                     calls |-> <<>>],
                    timestamp,
                    _get_clean_live_data(
                        [DAILY_OHLC |-> data_dict[timestamp]]).DAILY_OHLC,
                    signals_by_strategy, 1)} :
              /\ processors' = processed.processors
              /\ step' = [NoStep EXCEPT
                            !.timestamp = timestamp,
                            !.signals_by_strategy = signals_by_strategy,
                            !.trades_by_strategy = processed.trades_by_strategy,
                            !.positions_by_strategy =
                                processed.positions_by_strategy,
                            !.raised = IF processed.error THEN "error"
                                       ELSE "none"]
    /\ status' = "executed"
    /\ UNCHANGED <<calendar_vars, live_vars, input_vars, iter_index,
                   portfolio_manager, pnl_by_symbol,
                   pnl_by_strategy_by_symbol, observed_data>>

ExecuteNext ==
    \E signal_type \in {"z_score_long", "z_score_short"},
       signal_strength \in Strengths :
        ExecuteSignal(signal_type, signal_strength)

SpecExecute == InitExecute /\ [][ExecuteNext]_vars

\* A constructed runner that has loaded nothing and is in the given state.
IdleRunIn(state) ==
    /\ config = [holding_period |-> 0, run_start_date |-> 0, run_end_date |-> 0,
                 lookback |-> 1, lookahead |-> Lookahead,
                 max_cores |-> MaxCores]
    /\ data_dict = EmptyDict
    /\ allocation_table = EmptyDict
    /\ precomputed_future_data = EmptyDict
    /\ iter_index = 0
    /\ status = state
    /\ processors = [name \in Strategies |-> NewProcessor]
    /\ portfolio_manager = NoAggregates
    /\ pnl_by_symbol = EmptyDict
    /\ pnl_by_strategy_by_symbol = EmptyDict
    /\ step = NoStep
    /\ observed_data = EmptyDict

\* Largest absolute quantity and largest fill price of the trades handed to
\* _process_position on their own, and the longest sequence of such calls.
MaxQuantity == 2
MaxFill == 2
MaxCalls == 2

\* The limit prices of those trades.
LimitPrices == (0..MaxFill) \cup {Infinity}

InitPosition == IdleCalendar /\ IdleLive /\ IdleRunIn("position")

\* One call of PortfolioProcessor._process_position on the processor of the
\* first strategy, at the live Open trade_price of the trade's symbol. The
\* log keeps the call, the processor it was made on, the trade returned and
\* the sum of quantity * price over the calls that reached
\* _update_position_and_cash.
ProcessPosition(action, trade, trade_price) ==
    /\ status = "position"
    /\ call_log.count < MaxCalls
    /\ \E live_data \in {[s \in {trade.symbol} |-> [Open |-> trade_price]]} :
         processors' = [processors EXCEPT ![StrategyList[1]] =
                           _process_position(@, action, trade, live_data)]
    /\ call_log' =
         [count |-> call_log.count + 1, action |-> action, trade |-> trade,
          trade_price |-> trade_price, pre |-> processors[StrategyList[1]],
          returned |-> trade,
          spent |-> (IF call_log.count = 0 THEN 0 ELSE call_log.spent)
                    + (IF _is_valid_trade(trade_price, trade.quantity,
                                          trade.limit_price)
                       THEN (IF action = "OPEN" THEN trade.quantity
                             ELSE -trade.quantity) * trade_price
                       ELSE 0)]
    /\ UNCHANGED <<calendar_vars, input_vars, live_last, iter_index, status,
                   portfolio_manager, pnl_by_symbol,
                   pnl_by_strategy_by_symbol, step, observed_data>>

PositionNext ==
    /\ call_log.count < MaxCalls
    /\ \E action \in {"OPEN", "CLOSE"},
          quantity \in (-MaxQuantity)..MaxQuantity,
          limit_price \in LimitPrices, trade_price \in 1..MaxFill :
           ProcessPosition(action,
                           Trade(SECONDS_IN_DAY, SymbolList[1], quantity,
                                 limit_price, "simple_fixed"),
                           trade_price)

SpecPosition == InitPosition /\ [][PositionNext]_vars

\* The lists of at most n elements of S.
ListsUpTo(S, n) == UNION {[1..k -> S] : k \in 0..n}

\* The non-zero quantities and the cost bases of the positions that are
\* aggregated on their own.
Quantities == ((-MaxQuantity)..MaxQuantity) \ {0}
CostBases == {Frac(price, 1) : price \in 1..MaxFill}

\* The positions that update_positions may return for a strategy: at most
\* one per symbol, in the first symbol any, in the second one a fixed one.
PositionLists ==
    {first \o second :
        first \in {<<>>} \cup {<<Position(SymbolList[1], quantity, cost_basis)>> :
                                  quantity \in Quantities,
                                  cost_basis \in CostBases},
        second \in {<<>>, <<Position(SymbolList[2], MaxQuantity, Frac(1, 1))>>}}

\* The trades handed to the aggregation on their own: any quantity and limit
\* price in the first symbol, and one trade of another type.
TradeChoices ==
    {Trade(SECONDS_IN_DAY, SymbolList[1], quantity, limit_price, "simple_fixed") :
        quantity \in (-MaxQuantity)..MaxQuantity, limit_price \in LimitPrices}
    \cup {Trade(SECONDS_IN_DAY, SymbolList[1], 1, Infinity, "other")}

\* The (strategy, items) pairs of the strategies, in list order, that have
\* items (BacktestMode._process_strategies appends no empty list).
ByStrategy(items) ==
    SelectSeq([k \in 1..Len(StrategyList) |->
                  [strategy |-> StrategyList[k], items |-> items[k]]],
              LAMBDA pair : pair.items # <<>>)

InitAggregate == IdleCalendar /\ IdleLive /\ IdleRunIn("aggregate")

\* ft.AggregatedPositions(positions): the constructor aggregates.
NewAggregatedPositions(positions) ==
    /\ status = "aggregate"
    /\ call_log.count = 0
    /\ call_log' = [count |-> 1, call |-> "AggregatedPositions",
                    raw |-> positions,
                    result |-> AggregatedPositions(positions)]
    /\ UNCHANGED <<calendar_vars, input_vars, run_vars, live_last>>

\* ft.AggregatedTrades(trades): the constructor aggregates.
NewAggregatedTrades(trades) ==
    /\ status = "aggregate"
    /\ call_log.count = 0
    /\ call_log' = [count |-> 1, call |-> "AggregatedTrades",
                    raw |-> trades,
                    result |-> AggregatedTrades(trades)]
    /\ UNCHANGED <<calendar_vars, input_vars, run_vars, live_last>>

AggregateNext ==
    \/ /\ call_log.count = 0
       /\ \E first \in PositionLists, second \in PositionLists :
             NewAggregatedPositions(ByStrategy(<<first, second>>))
    \/ /\ call_log.count = 0
       /\ \E first \in ListsUpTo(TradeChoices, 2),
             second \in ListsUpTo(TradeChoices, 1) :
             NewAggregatedTrades(ByStrategy(<<first, second>>))

SpecAggregate == InitAggregate /\ [][AggregateNext]_vars

\* The lists of trades and of positions handed to PortfolioManager.update
\* on its own, for the first and for the second strategy: a buy and a sell
\* of the first symbol, a buy of the second one, a trade of another type.
UpdateTrades ==
    LET buy   == Trade(SECONDS_IN_DAY, SymbolList[1], 1, Infinity, "simple_fixed")
        again == Trade(SECONDS_IN_DAY, SymbolList[2], MaxQuantity, Infinity, "simple_fixed")
        sell  == Trade(SECONDS_IN_DAY, SymbolList[1], -MaxQuantity, 0, "simple_fixed")
        other == Trade(SECONDS_IN_DAY, SymbolList[1], 1, Infinity, "other")
    IN  {<<first, second>> :
            first \in {<<>>, <<buy>>, <<buy, again>>, <<other>>},
            second \in {<<>>, <<sell>>, <<buy>>}}

UpdatePositions ==
    LET long  == Position(SymbolList[1], 1, Frac(1, 1))
        more  == Position(SymbolList[2], MaxQuantity, Frac(1, 1))
        short == Position(SymbolList[1], -MaxQuantity, Frac(MaxFill, 1))
    IN  {<<first, second>> :
            first \in {<<>>, <<long>>, <<long, more>>},
            second \in {<<>>, <<short>>}}

InitManager == IdleCalendar /\ IdleLive /\ IdleRunIn("manager")

\* PortfolioManager.update: both aggregators are constructed before the four
\* fields are assigned, so a raise leaves the fields as they were. The log
\* keeps the lists handed in and their objects as they are after the call.
ManagerUpdate(trades_by_strategy, positions_by_strategy) ==
    /\ status = "manager"
    /\ call_log.count < MaxCalls
    /\ \E trade_aggregator \in {Aggregator("trades", trades_by_strategy)} :
         \E position_aggregator \in
               {IF trade_aggregator.error
                THEN [error |-> TRUE,
                      given |-> Flatten(positions_by_strategy)]
                ELSE Aggregator("positions", positions_by_strategy)} :
            /\ portfolio_manager' =
                 IF position_aggregator.error
                 THEN portfolio_manager
                 ELSE [aggregated_positions |-> position_aggregator.total,
                       aggregated_positions_by_strategy |->
                          position_aggregator.by_strategy,
                       aggregated_trades |-> trade_aggregator.total,
                       aggregated_trades_by_strategy |->
                          trade_aggregator.by_strategy]
            /\ call_log' =
                 [count |-> call_log.count + 1,
                  trades_by_strategy |-> trades_by_strategy,
                  positions_by_strategy |-> positions_by_strategy,
                  raised |-> position_aggregator.error,
                  trades_after |-> trade_aggregator.given,
                  positions_after |-> position_aggregator.given]
    /\ UNCHANGED <<calendar_vars, input_vars, live_last, iter_index, status,
                   processors, pnl_by_symbol, pnl_by_strategy_by_symbol, step,
                   observed_data>>

ManagerNext ==
    /\ call_log.count < MaxCalls
    /\ \E trades \in UpdateTrades, positions \in UpdatePositions :
          ManagerUpdate(ByStrategy(trades), ByStrategy(positions))

SpecManager == InitManager /\ [][ManagerNext]_vars

\* The trades and the positions of a strategy that are passed through both
\* managers on their own: at most one trade and one position in the first
\* symbol, of any sign, the trade with a limit price of 0, a finite one or
\* infinity.
ReconcileTrades ==
    {<<>>} \cup {<<Trade(SECONDS_IN_DAY, SymbolList[1], quantity, limit_price,
                         "simple_fixed")>> :
                    quantity \in Quantities,
                    limit_price \in {0, MaxFill, Infinity}}

ReconcilePositions ==
    {<<>>} \cup {<<Position(SymbolList[1], quantity, Frac(1, 1))>> :
                    quantity \in {-1, 1, MaxQuantity}}

\* The future data of the first loaded day: every symbol's rows of the
\* first and of the second day.
ReconcileFuture ==
    [symbol \in Symbols |->
        [k \in 1..2 |-> RowOf(symbol, k, k * SECONDS_IN_DAY)]]

InitReconcile == IdleCalendar /\ IdleLive /\ IdleRunIn("reconcile")

\* PortfolioManager.update followed by PerformanceManager.update on its
\* four aggregates, as _process_timestamp calls them, at the first day of a
\* run without an end. The log keeps the lists handed in and whether an
\* aggregator raised.
ReconcileUpdate(trades_by_strategy, positions_by_strategy) ==
    /\ status = "reconcile"
    /\ call_log.count = 0
    /\ \E aggregated \in {PortfolioManagerUpdate(trades_by_strategy,
                                                 positions_by_strategy)} :
         /\ call_log' = [count |-> 1,
                         trades_by_strategy |-> trades_by_strategy,
                         positions_by_strategy |-> positions_by_strategy,
                         raised |-> aggregated.error]
         /\ IF aggregated.error
            THEN UNCHANGED <<portfolio_manager, pnl_by_symbol,
                             pnl_by_strategy_by_symbol>>
            ELSE \E updated \in {_update_total_pnl(
                        pnl_by_symbol, pnl_by_strategy_by_symbol,
                        SECONDS_IN_DAY, 2 * SECONDS_IN_DAY, ReconcileFuture,
                        aggregated.aggregated_positions,
                        aggregated.aggregated_positions_by_strategy,
                        aggregated.aggregated_trades,
                        aggregated.aggregated_trades_by_strategy,
                        Infinity)} :
                   /\ portfolio_manager' = AggregatesOf(aggregated)
                   /\ pnl_by_symbol' = updated.pnl_by_symbol
                   /\ pnl_by_strategy_by_symbol' =
                        updated.pnl_by_strategy_by_symbol
    /\ UNCHANGED <<calendar_vars, input_vars, live_last, iter_index, status,
                   processors, step, observed_data>>

ReconcileNext ==
    /\ call_log.count = 0
    /\ \E trades \in [1..Len(StrategyList) -> ReconcileTrades],
          positions \in [1..Len(StrategyList) -> ReconcilePositions] :
            ReconcileUpdate(ByStrategy(trades), ByStrategy(positions))

SpecReconcile == InitReconcile /\ [][ReconcileNext]_vars

InitExpiry == IdleCalendar /\ IdleLive /\ IdleRunIn("expiry")

\* The opening of one trade as execute_trades does it (processor.py 79-91),
\* for a trade with any limit price on the first day, at the live Open
\* trade_price: _process_position is called and the trade is put in
\* open_trades whether the check passed or not. The log keeps the trade,
\* the price and whether the check passed.
OpenLimitTrade(trade, trade_price) ==
    /\ status = "expiry"
    /\ call_log.count = 0
    /\ \E live_data \in {[s \in {trade.symbol} |-> [Open |-> trade_price]]} :
         processors' = [processors EXCEPT ![StrategyList[1]] =
                           [_process_position(@, "OPEN", trade, live_data)
                               EXCEPT !.open_trades = <<trade>>]]
    /\ call_log' = [count |-> 1, trade |-> trade, trade_price |-> trade_price,
                    applied |-> _is_valid_trade(trade_price, trade.quantity,
                                                trade.limit_price)]
    /\ UNCHANGED <<calendar_vars, input_vars, live_last, iter_index, status,
                   portfolio_manager, pnl_by_symbol,
                   pnl_by_strategy_by_symbol, step, observed_data>>

\* execute_trades without signals on the first or on the second day, with
\* a holding period of one day, at the live Open trade_price.
ExpireTrades(day, trade_price) ==
    /\ status = "expiry"
    /\ call_log.count = 1
    /\ \E live_data \in {[s \in Symbols |-> [Open |-> trade_price]]} :
         processors' = [processors EXCEPT ![StrategyList[1]] =
                           execute_trades(@, day * SECONDS_IN_DAY, live_data,
                                          <<>>, Frac(1, 1),
                                          SECONDS_IN_DAY).pp]
    /\ call_log' = [count |-> 2, trade |-> call_log.trade,
                    trade_price |-> trade_price, applied |-> call_log.applied]
    /\ UNCHANGED <<calendar_vars, input_vars, live_last, iter_index, status,
                   portfolio_manager, pnl_by_symbol,
                   pnl_by_strategy_by_symbol, step, observed_data>>

ExpiryNext ==
    \/ /\ call_log.count = 0
       /\ \E quantity \in (-MaxQuantity)..MaxQuantity,
             limit_price \in LimitPrices, trade_price \in 1..MaxFill :
               OpenLimitTrade(Trade(SECONDS_IN_DAY, SymbolList[1], quantity,
                                    limit_price, "simple_fixed"),
                              trade_price)
    \/ /\ call_log.count = 1
       /\ \E day \in 1..2, trade_price \in 1..MaxFill :
             ExpireTrades(day, trade_price)

SpecExpiry == InitExpiry /\ [][ExpiryNext]_vars

\* The most days of an allocation configuration that is loaded on its own.
MaxDays == 3

\* The strategies a day of the allocation configuration may list, in the
\* order of the day's dict: none, one, or both in either order.
NameLists ==
    {names \in ListsUpTo(Strategies, Len(StrategyList)) :
        \A i \in 1..Len(names), j \in 1..Len(names) :
            names[i] = names[j] => i = j}

\* The allocation tables build_allocation_table may leave, as the items of
\* the dict in insertion order: at least one day, the days one apart.
AllocationItems ==
    UNION {{[i \in 1..n |-> [timestamp |-> i * SECONDS_IN_DAY,
                             names |-> lists[i]]] :
               lists \in [1..n -> NameLists]} : n \in 1..MaxDays}

\* The loop of load_configurations over the items from the i-th on, with the
\* strategy_configs keys loaded so far. The comparison with the first day's
\* names is made in the loop over the names of the day, once per name.
RECURSIVE load_items(_, _, _)
load_items(items, i, strategy_configs) ==
    IF i > Len(items)
    THEN [raised |-> "", timestamp |-> 0,
          strategy_configs |-> strategy_configs]
    ELSE IF \E k \in 1..Len(items[i].names) :
               Elems(items[i].names) # Elems(items[1].names)
         THEN [raised |-> "ValueError", timestamp |-> items[i].timestamp,
               strategy_configs |-> strategy_configs]
         ELSE load_items(items, i + 1,
                         strategy_configs \cup Elems(items[i].names))

\* ConfigBuilder.load_configurations on the table of the given items.
load_configurations(items) == load_items(items, 1, {})

InitLoad == IdleCalendar /\ IdleLive /\ IdleRunIn("load")

\* build_global_config: the allocation table is built, then
\* load_configurations reads it. The log keeps the items and the outcome.
LoadConfigurations(items) ==
    /\ status = "load"
    /\ call_log.count = 0
    /\ allocation_table' =
         [t \in {items[i].timestamp : i \in 1..Len(items)} |->
            LET i == CHOOSE i \in 1..Len(items) : items[i].timestamp = t
            IN  [name \in Elems(items[i].names) |->
                    [weight |-> Frac(1, 1)]]]
    /\ call_log' = [count |-> 1, items |-> items,
                    result |-> load_configurations(items)]
    /\ UNCHANGED <<calendar_vars, config, data_dict, precomputed_future_data,
                   run_vars, live_last>>

LoadNext ==
    /\ call_log.count = 0
    /\ \E items \in AllocationItems : LoadConfigurations(items)

SpecLoad == InitLoad /\ [][LoadNext]_vars

\* ------------------------------------------------------------------------
\* DataManager (src/quantgpt/core/data/manager.py)
\* ------------------------------------------------------------------------
\* The calendar of the loads that are checked on their own and the
\* Timestamp values of the rows in the files: the market days and one day
\* that is not in the calendar.
MarketDays == <<SECONDS_IN_DAY, 2 * SECONDS_IN_DAY>>
OffDay == 3 * SECONDS_IN_DAY

\* global_config["data_providers"][AssetClass.US_EQUITY]: the data types in
\* the order of the dict and the providers of each in list order.
AssetClass == "us_equity"
DataTypeList == <<"daily_ohlc", "financials">>
ProviderList(data_type) ==
    IF data_type = "daily_ohlc" THEN <<"yahoo", "polygon">> ELSE <<"polygon">>

Providers == UNION {Elems(ProviderList(DataTypeList[i])) : i \in 1..Len(DataTypeList)}

\* The (data type, provider) pairs in the order _load_symbol fetches them.
RECURSIVE SlicesFrom(_)
SlicesFrom(i) ==
    IF i > Len(DataTypeList) THEN <<>>
    ELSE [k \in 1..Len(ProviderList(DataTypeList[i])) |->
             [data_type |-> DataTypeList[i],
              provider_name |-> ProviderList(DataTypeList[i])[k]]]
         \o SlicesFrom(i + 1)

Slices == SlicesFrom(1)

\* A row of the file of a symbol, data type and provider.
FileRow(symbol, slice, timestamp) ==
    [Timestamp |-> timestamp, Symbol |-> symbol,
     Provider |-> slice.provider_name]

\* What a file may be: missing, without rows, a row of the first market
\* day, or a row of the day outside the calendar before one of the second
\* market day.
FileKinds == {"missing", "empty", "one", "two"}

File(symbol, slice, kind) ==
    [exists |-> kind # "missing",
     rows |-> IF kind = "one"
              THEN <<FileRow(symbol, slice, MarketDays[1])>>
              ELSE IF kind = "two"
              THEN <<FileRow(symbol, slice, OffDay),
                     FileRow(symbol, slice, MarketDays[2])>>
              ELSE <<>>]

\* The files of a run: one per symbol and slice.
FileSets ==
    {[symbol \in Symbols |->
        [k \in 1..Len(Slices) |-> File(symbol, Slices[k], kinds[symbol][k])]] :
            kinds \in [Symbols -> [1..Len(Slices) -> FileKinds]]}

\* global_config["db_connections"]
ConnectionSets == [Providers -> {"csv", "sqlite"}]

\* DataManager._fetch_data: FileNotFoundError of read_data_file and the
\* NotImplementedError of the other connections are caught and an empty
\* frame is returned.
_fetch_data(file, db_connection) ==
    IF db_connection = "csv"
    THEN IF ~file.exists THEN <<>> ELSE file.rows
    ELSE <<>>

\* The fetch of the slice ends in the except branch.
FetchFails(file, db_connection) == db_connection # "csv" \/ ~file.exists

\* DataWranger.wrangle_loaded_data
wrangle_loaded_data(df, data_type, data_provider) ==
    IF Len(df) = 0 THEN df
    ELSE IF data_type = "news"
            /\ data_provider \in {"biopharmcatalyst", "test_biopharmcatalyst"}
         THEN [i \in 1..Len(df) |->
                 [column \in DOMAIN df[i] \ {"MappedCloseTimestamp"} |->
                     IF column = "Timestamp" THEN df[i].MappedCloseTimestamp
                     ELSE df[i][column]]]
         ELSE df

\* DataManager._filter_df
_filter_df(data_type, market_timestamps, df) ==
    LET InMarket(row) == row.Timestamp \in Elems(market_timestamps)
    IN  IF Len(df) = 0 THEN df
        ELSE IF data_type = "daily_ohlc" /\ "Timestamp" \in DOMAIN df[1]
             THEN SelectSeq(df, InMarket)
        ELSE IF data_type = "news" /\ "Timestamp" \in DOMAIN df[1]
             THEN SelectSeq(df, InMarket)
        ELSE df

\* A dict of timestamps whose key order is kept: keys in insertion order
\* and the value at each key.
NoData == [keys |-> <<>>, at |-> EmptyDict]

\* data[timestamp][asset_class][data_type][symbol] = row_data
SetRow(data, timestamp, data_type, symbol, row_data) ==
    LET asset_classes == IF timestamp \in DOMAIN data.at THEN data.at[timestamp]
                         ELSE EmptyDict
        data_types == IF AssetClass \in DOMAIN asset_classes
                      THEN asset_classes[AssetClass] ELSE EmptyDict
        symbols == IF data_type \in DOMAIN data_types
                   THEN data_types[data_type] ELSE EmptyDict
    IN  [keys |-> IF timestamp \in DOMAIN data.at THEN data.keys
                  ELSE Append(data.keys, timestamp),
         at |-> DictSet(data.at, timestamp,
                    DictSet(asset_classes, AssetClass,
                        DictSet(data_types, data_type,
                            DictSet(symbols, symbol, row_data))))]

\* DataManager._append_data from the i-th row of df on.
RECURSIVE _append_data(_, _, _, _, _)
_append_data(data_type, symbol, data, df, i) ==
    IF i > Len(df) THEN data
    ELSE _append_data(data_type, symbol,
                      SetRow(data, df[i].Timestamp, data_type, symbol, df[i]),
                      df, i + 1)

\* The loop of DataManager._load_symbol from the k-th slice on.
RECURSIVE _load_slices(_, _, _, _, _, _)
_load_slices(symbol, market_timestamps, files, db_connections, data, k) ==
    IF k > Len(Slices) THEN data
    ELSE LET data_type == Slices[k].data_type
             provider_name == Slices[k].provider_name
             df == wrangle_loaded_data(
                       _fetch_data(files[symbol][k],
                                   db_connections[provider_name]),
                       data_type, provider_name)
             filtered_df == _filter_df(data_type, market_timestamps, df)
         IN  _load_slices(symbol, market_timestamps, files, db_connections,
                          _append_data(data_type, symbol, data, filtered_df, 1),
                          k + 1)

_load_symbol(symbol, market_timestamps, files, db_connections) ==
    _load_slices(symbol, market_timestamps, files, db_connections, NoData, 1)

\* The rows of a result at a timestamp, as (data type, symbol, row) records.
RowsAt(result, timestamp) ==
    LET data_types == result.at[timestamp][AssetClass]
    IN  UNION {{[data_type |-> data_type, symbol |-> symbol,
                 row |-> data_types[data_type][symbol]] :
                    symbol \in DOMAIN data_types[data_type]} :
                       data_type \in DOMAIN data_types}

\* DataManager._unpack_and_process_results from the r-th result on: the
\* timestamps of a result are visited in its key order, and each of its rows
\* is set in data.
RECURSIVE MergeRows(_, _, _)
MergeRows(data, timestamp, rows) ==
    IF rows = {} THEN data
    ELSE LET item == CHOOSE item \in rows : TRUE
         IN  MergeRows(SetRow(data, timestamp, item.data_type, item.symbol,
                              item.row),
                       timestamp, rows \ {item})

RECURSIVE MergeResult(_, _, _)
MergeResult(data, result, i) ==
    IF i > Len(result.keys) THEN data
    ELSE MergeResult(MergeRows(data, result.keys[i],
                               RowsAt(result, result.keys[i])),
                     result, i + 1)

RECURSIVE _unpack_and_process_results(_, _, _)
_unpack_and_process_results(results, data, r) ==
    IF r > Len(results) THEN data
    ELSE _unpack_and_process_results(results,
                                     MergeResult(data, results[r], 1), r + 1)

\* The items are left in the order of insertion.
SortedItems_inserted(data) == data

\* dict(sorted(data.items()))
SortedItems(data) == [keys |-> SortedSeq(Elems(data.keys)), at |-> data.at]

\* DataManager._run_multi_processed_code with the results of the workers
\* taken in the given order of the symbols.
_run_multi_processed_code(order, market_timestamps, files, db_connections) ==
    LET results == [r \in 1..Len(order) |->
                       _load_symbol(order[r], market_timestamps, files,
                                    db_connections)]
    IN  SortedItems(_unpack_and_process_results(results, NoData, 1))

\* The orders in which the results of the symbols may be merged.
ResultOrders ==
    {order \in [1..Len(SymbolList) -> Symbols] :
        \A i \in 1..Len(order), j \in 1..Len(order) :
            order[i] = order[j] => i = j}

InitData ==
    /\ cal_timestamps = MarketDays
    /\ cal_last = [op |-> "init", t |-> 0, arg |-> "",
                   result |-> Returned(<<>>), pre |-> <<>>,
                   prior |-> NoRemoval]
    /\ IdleLive /\ IdleRunIn("data")

\* DataManager.__init__: self.data_dict = self._load_data(). The log keeps
\* the files, the connections, the order of the results and the keys of
\* data_dict in their order.
LoadData(order, files, db_connections) ==
    /\ status = "data"
    /\ call_log.count = 0
    /\ \E sorted_data \in {_run_multi_processed_code(order, cal_timestamps,
                                                     files, db_connections)} :
         /\ data_dict' = sorted_data.at
         /\ call_log' = [count |-> 1, order |-> order, files |-> files,
                         db_connections |-> db_connections,
                         keys |-> sorted_data.keys]
    /\ UNCHANGED <<calendar_vars, config, allocation_table,
                   precomputed_future_data, run_vars, live_last>>

DataNext ==
    /\ call_log.count = 0
    /\ \E order \in ResultOrders, files \in FileSets,
          db_connections \in ConnectionSets :
            LoadData(order, files, db_connections)

SpecData == InitData /\ [][DataNext]_vars

\* All adjacent gaps of a sequence of timestamps are equal.
Uniform(timestamps) ==
    \A i \in 1..(Len(timestamps) - 1), j \in 1..(Len(timestamps) - 1) :
        timestamps[i + 1] - timestamps[i] = timestamps[j + 1] - timestamps[j]

\* A calendar built over days without a gap: uniformly spaced.
InitCalUniform == InitCal /\ Uniform(cal_timestamps)

SpecCalUniform == InitCalUniform /\ [][CalendarNext]_vars

\* The allocation tables of the runs whose schedule is checked: the table
\* of every day and both strategies, the table of the first strategy alone,
\* the table without the second strategy on the third day, and the tables
\* without an entry for the second or for the third day.
ScheduleTables(keys) ==
    LET full == [t \in Elems(keys) |->
                    [name \in Strategies |->
                        [weight |-> IF name = StrategyList[1]
                                    THEN Frac(1, 1) ELSE Frac(1, 2)]]]
        Without(day) == [t \in Elems(keys) \ {day * SECONDS_IN_DAY} |-> full[t]]
    IN  {full,
         [t \in Elems(keys) |->
            [name \in {StrategyList[1]} |-> full[t][name]]],
         [t \in Elems(keys) |->
            [name \in IF t = 3 * SECONDS_IN_DAY THEN {StrategyList[1]}
                      ELSE Strategies |-> full[t][name]]],
         Without(2), Without(3)}

\* The runs whose schedule is checked: any number of loaded days without a
\* gap, none included, a run window that holds them all, and trades held
\* for one day.
InitSchedule ==
    /\ IdleCalendar /\ IdleLive
    /\ \E n \in 0..NumKeys :
          data_dict = FullData(SubSeq(KeysOf(FALSE), 1, n))
    /\ config = [holding_period |-> SECONDS_IN_DAY, run_start_date |-> 0,
                 run_end_date |-> Infinity, lookback |-> 1,
                 lookahead |-> Lookahead, max_cores |-> MaxCores]
    /\ allocation_table \in ScheduleTables(Keys)
    /\ precomputed_future_data =
         _precompute_future_data(data_dict, Keys, config.lookahead,
                                 config.max_cores)
    /\ iter_index = 0
    /\ status = StatusAfter(0)
    /\ processors = [name \in Strategies |-> NewProcessor]
    /\ portfolio_manager = NoAggregates
    /\ pnl_by_symbol = EmptyDict
    /\ pnl_by_strategy_by_symbol = EmptyDict
    /\ step = NoStep
    /\ observed_data = IF StatusAfter(0) = "done"
                       THEN AdvanceObserved(EmptyDict, data_dict, Keys,
                                            config.lookback, 0, Len(Keys) - 2)
                       ELSE EmptyDict

Next == RunStep

Spec == Init /\ [][Next]_vars

SpecSchedule == InitSchedule /\ [][Next]_vars

\* ------------------------------------------------------------------------
\* Properties of the backtest
\* ------------------------------------------------------------------------
\* The last step was a _process_timestamp that returned without raising.
StepDone == step.timestamp # 0 /\ step.raised = "none"

\* The trades execute_trades returned for a strategy in a step.
ReturnedTrades(a_step, name) ==
    IF \E k \in 1..Len(a_step.trades_by_strategy) :
            a_step.trades_by_strategy[k].strategy = name
    THEN a_step.trades_by_strategy[
            CHOOSE k \in 1..Len(a_step.trades_by_strategy) :
                a_step.trades_by_strategy[k].strategy = name].items
    ELSE <<>>

\* The quantity a processor holds of a symbol, 0 without a position.
Held(pp, symbol) ==
    IF PositionIndex(pp.open_positions_by_symbol, symbol) = 0 THEN 0
    ELSE pp.open_positions_by_symbol[
            PositionIndex(pp.open_positions_by_symbol, symbol)].quantity

\* The step of C1: a trade opened at t with holding period P is force-closed
\* at the first processed timestamp T >= t + P: at that step the returned trade
\* list contains a closing trade whose quantity is exactly the negation of
\* the opened quantity, and (seen where it is the step's only trade of the
\* strategy) the symbol's position and the cash change by that negated
\* quantity at the step's live open price.
C1_ExpiryStep ==
    (status = "running" /\ step'.raised = "none") =>
        \A name \in Strategies :
          \A j \in 1..Len(processors[name].open_trades) :
            LET trade    == processors[name].open_trades[j]
                returned == ReturnedTrades(step', name)
                price    == data_dict[step'.timestamp][trade.symbol].Open
            IN  step'.timestamp >= trade.timestamp + config.holding_period
                => /\ \E k \in 1..Len(returned) :
                        /\ returned[k].symbol = trade.symbol
                        /\ returned[k].quantity = -trade.quantity
                   /\ Len(returned) = 1 =>
                        /\ Held(processors'[name], trade.symbol)
                             = Held(processors[name], trade.symbol)
                               - trade.quantity
                        /\ processors'[name].cash
                             = processors[name].cash + trade.quantity * price

\* C1: every step of the run force-closes the expired open trades with a
\* returned closing trade of exactly the negated quantity (C1_ExpiryStep).
C1_ExpiryEmitsNegatedTrade == [][C1_ExpiryStep]_vars

\* C2: for every symbol with an aggregated trade of quantity q at the
\* current timestamp t, the row attributed to t has
\* NewTrade = (Close[0] - Open[0]) * q read from index 0 of the future-data
\* window and Positional = 0; symbols without a trade get no row at t.
C2_NewTradeRows ==
    StepDone =>
        /\ DOMAIN step.calculated.calculated_pnl_t
             = DOMAIN portfolio_manager.aggregated_trades
        /\ \A symbol \in DOMAIN portfolio_manager.aggregated_trades :
             step.calculated.calculated_pnl_t[symbol]
               = [Timestamp  |-> step.timestamp,
                  NewTrade   |-> (step.future_data[symbol][1].Close
                                  - step.future_data[symbol][1].Open)
                                 * portfolio_manager.aggregated_trades[symbol].quantity,
                  Positional |-> 0]

\* A step with a trade of non-zero new-trade PnL in one symbol and none in
\* the other.
C2_Witness ==
    /\ StepDone
    /\ \E symbol \in DOMAIN step.calculated.calculated_pnl_t :
          step.calculated.calculated_pnl_t[symbol].NewTrade # 0
    /\ \E symbol \in Symbols :
          symbol \notin DOMAIN step.calculated.calculated_pnl_t

\* C3: for every symbol with an aggregated position of quantity h, the row
\* attributed to next_timestamp has Positional = (Close[1] - Close[0]) * h,
\* read from indices 1 and 0 of the future-data window, and NewTrade = 0.
C3_PositionalRows ==
    StepDone =>
        /\ DOMAIN step.calculated.calculated_pnl_tp1
             = DOMAIN portfolio_manager.aggregated_positions
        /\ \A symbol \in DOMAIN portfolio_manager.aggregated_positions :
             step.calculated.calculated_pnl_tp1[symbol]
               = [Timestamp  |-> step.next_timestamp,
                  NewTrade   |-> 0,
                  Positional |-> (step.future_data[symbol][2].Close
                                  - step.future_data[symbol][1].Close)
                                 * portfolio_manager.aggregated_positions[symbol].quantity]

\* A step with a held position of non-zero positional PnL.
C3_Witness ==
    /\ StepDone
    /\ \E symbol \in DOMAIN step.calculated.calculated_pnl_tp1 :
          /\ step.calculated.calculated_pnl_tp1[symbol].Positional # 0
          /\ portfolio_manager.aggregated_positions[symbol].quantity # 0

\* C4 as claimed: the new-trade PnL of a trade executed at t equals (close
\* of the trading day after t - open of t) * trade quantity.
C4_OpenToNextDayClose ==
    StepDone =>
        \A symbol \in DOMAIN portfolio_manager.aggregated_trades :
            step.calculated.calculated_pnl_t[symbol].NewTrade
              = (data_dict[step.next_timestamp][symbol].Close
                 - data_dict[step.timestamp][symbol].Open)
                * portfolio_manager.aggregated_trades[symbol].quantity

\* C4 as amended: the new-trade PnL of a trade executed at t is measured
\* from the open of t to the close of the same day t: it equals
\* (close of t - open of t) * trade quantity.
C4_OpenToSameDayClose ==
    StepDone =>
        \A symbol \in DOMAIN portfolio_manager.aggregated_trades :
            step.calculated.calculated_pnl_t[symbol].NewTrade
              = (data_dict[step.timestamp][symbol].Close
                 - data_dict[step.timestamp][symbol].Open)
                * portfolio_manager.aggregated_trades[symbol].quantity

\* A trade whose day closes at another price than the next day does, with
\* a new-trade PnL that is not zero.
C4_Witness ==
    /\ StepDone
    /\ \E symbol \in DOMAIN portfolio_manager.aggregated_trades :
          /\ portfolio_manager.aggregated_trades[symbol].quantity # 0
          /\ step.calculated.calculated_pnl_t[symbol].NewTrade # 0
          /\ data_dict[step.timestamp][symbol].Close
               # data_dict[step.next_timestamp][symbol].Close

\* The sum of a column over the rows of a table at one timestamp, counted
\* from the last row back.
RECURSIVE TableSum(_, _, _, _)
TableSum(table, timestamp, column, n) ==
    IF n = 0 THEN 0
    ELSE TableSum(table, timestamp, column, n - 1)
         + (IF table[n].Timestamp = timestamp THEN table[n][column] ELSE 0)

\* The sum over the tables of a set of symbols.
RECURSIVE TablesSum(_, _, _, _)
TablesSum(tables, symbols, timestamp, column) ==
    IF symbols = {} THEN 0
    ELSE LET symbol == CHOOSE x \in symbols : TRUE
         IN  TableSum(tables[symbol], timestamp, column, Len(tables[symbol]))
             + TablesSum(tables, symbols \ {symbol}, timestamp, column)

\* The timestamps that occur in the tables of a dictionary.
TimestampsOf(tables) ==
    UNION {{tables[symbol][k].Timestamp : k \in 1..Len(tables[symbol])} :
             symbol \in DOMAIN tables}

\* The aggregate of a dictionary of tables has exactly one row for each
\* timestamp of the tables, holding the sums of the tables' rows there.
Reconciles(tables) ==
    LET aggregated == _calc_aggregated_pnl(tables)
    IN  /\ ~aggregated.raised
        /\ {aggregated.value[g].Timestamp : g \in 1..Len(aggregated.value)}
             = TimestampsOf(tables)
        /\ \A g \in 1..Len(aggregated.value) :
             /\ \A h \in 1..Len(aggregated.value) :
                   aggregated.value[h].Timestamp = aggregated.value[g].Timestamp
                   => h = g
             /\ aggregated.value[g].NewTrade
                  = TablesSum(tables, DOMAIN tables,
                              aggregated.value[g].Timestamp, "NewTrade")
             /\ aggregated.value[g].Positional
                  = TablesSum(tables, DOMAIN tables,
                              aggregated.value[g].Timestamp, "Positional")

\* C5: after any sequence of PerformanceManager.update calls that appended
\* a row, at every timestamp the portfolio aggregate (_get_aggregated_pnl)
\* has NewTrade and Positional equal to the sums of the per-symbol tables'
\* rows at that timestamp, and each strategy's aggregate
\* (_get_aggregated_pnl_by_strategy) equals the sum of that strategy's
\* per-symbol rows at that timestamp.
C5_AggregatesReconcile ==
    /\ pnl_by_symbol # EmptyDict => Reconciles(pnl_by_symbol)
    /\ \A name \in DOMAIN pnl_by_strategy_by_symbol :
          Reconciles(pnl_by_strategy_by_symbol[name])

\* Two symbols have rows at one timestamp, both with a non-zero entry in
\* the same column, and both strategies have tables.
C5_Witness ==
    /\ DOMAIN pnl_by_symbol = Symbols
    /\ DOMAIN pnl_by_strategy_by_symbol = Strategies
    /\ \E timestamp \in TimestampsOf(pnl_by_symbol) :
          \A symbol \in Symbols :
             TableSum(pnl_by_symbol[symbol], timestamp, "Positional",
                      Len(pnl_by_symbol[symbol])) # 0

\* Every row of every table of a dictionary lies before the run's end.
BeforeRunEnd(tables) ==
    \A symbol \in DOMAIN tables :
       \A k \in 1..Len(tables[symbol]) :
          tables[symbol][k].Timestamp < config.run_end_date

\* C6: _update_total_pnl always appends the current-timestamp rows and
\* appends the next-timestamp rows only when next_timestamp is strictly
\* before the run end date: no per-symbol or per-strategy table ever holds
\* a row whose Timestamp is >= the run end.
C6_NoRowPastRunEnd ==
    /\ BeforeRunEnd(pnl_by_symbol)
    /\ \A name \in DOMAIN pnl_by_strategy_by_symbol :
          BeforeRunEnd(pnl_by_strategy_by_symbol[name])
    /\ StepDone =>
          \A symbol \in DOMAIN step.calculated.calculated_pnl_t :
             /\ symbol \in DOMAIN pnl_by_symbol
             /\ \E k \in 1..Len(pnl_by_symbol[symbol]) :
                   pnl_by_symbol[symbol][k]
                     = step.calculated.calculated_pnl_t[symbol]

\* A step whose next timestamp is the run end, with a trade and a held
\* position: the current row was appended, the positional row was not.
C6_Witness ==
    /\ StepDone
    /\ step.next_timestamp >= config.run_end_date
    /\ step.calculated.calculated_pnl_t # EmptyDict
    /\ step.calculated.calculated_pnl_tp1 # EmptyDict

\* ------------------------------------------------------------------------
\* Properties of the calendar
\* ------------------------------------------------------------------------
\* The last call was nearest(t, d) on the calendar cal_last.pre.
LastNearest(d) == cal_last.op = "nearest" /\ cal_last.arg = d

\* C7: for every non-empty calendar and every query timestamp t, member of
\* the calendar or not, whenever nearest(t, "before") and nearest(t, "after")
\* both return, nearest(t, "before") < t < nearest(t, "after").
C7_BeforeAfterStrict ==
    (/\ LastNearest("after")
     /\ cal_last.pre # <<>>
     /\ ~cal_last.result.raised
     /\ ~nearest(cal_last.pre, cal_last.t, "before").raised)
    => /\ nearest(cal_last.pre, cal_last.t, "before").value < cal_last.t
       /\ cal_last.t < cal_last.result.value

\* C8: nearest(t, "before") raises ValueError exactly when no calendar
\* timestamp is strictly earlier than t, nearest(t, "after") raises
\* ValueError exactly when none is strictly later than t, and any direction
\* other than before, after and nearest raises ValueError.
C8_NearestRaises ==
    cal_last.op = "nearest" =>
        /\ cal_last.arg = "before" =>
              ((cal_last.result = ValueError)
                 <=> ~(\E x \in Elems(cal_last.pre) : x < cal_last.t))
        /\ cal_last.arg = "after" =>
              ((cal_last.result = ValueError)
                 <=> ~(\E x \in Elems(cal_last.pre) : x > cal_last.t))
        /\ cal_last.arg \notin {"before", "after", "nearest"} =>
              cal_last.result = ValueError

\* C9: nearest(t, "nearest") on a non-empty calendar returns a calendar
\* timestamp of smallest absolute distance to t, the earlier one when t is
\* exactly midway between two adjacent timestamps, the first timestamp when
\* t lies before the first and the last when t lies after the last.
C9_NearestClosest ==
    (LastNearest("nearest") /\ cal_last.pre # <<>>) =>
        LET ts == cal_last.pre
            t  == cal_last.t
            r  == cal_last.result
        IN  /\ ~r.raised
            /\ r.value \in Elems(ts)
            /\ \A x \in Elems(ts) :
                  \/ Abs(r.value - t) < Abs(x - t)
                  \/ Abs(r.value - t) = Abs(x - t) /\ r.value <= x
            /\ t < ts[1] => r.value = ts[1]
            /\ t > ts[Len(ts)] => r.value = ts[Len(ts)]

\* A query exactly midway between two adjacent timestamps was answered with
\* the earlier one.
C9_Witness ==
    /\ LastNearest("nearest")
    /\ ~cal_last.result.raised
    /\ \E i \in 1..(Len(cal_last.pre) - 1) :
          /\ cal_last.pre[i + 1] - cal_last.t = cal_last.t - cal_last.pre[i]
          /\ cal_last.result.value = cal_last.pre[i]

\* C10: range_search(a, b) returns exactly the subsequence of the calendar's
\* timestamps x with a <= x <= b, in ascending order (empty when a > b or no
\* timestamp lies in the range), and leaves the calendar as it was.
C10_RangeSearchExact ==
    cal_last.op = "range_search" =>
        LET InRange(x) == cal_last.t <= x /\ x <= cal_last.arg
        IN  /\ cal_last.result.value = SelectSeq(cal_last.pre, InRange)
            /\ cal_timestamps = cal_last.pre

\* A range search whose upper bound is a calendar timestamp returned some
\* but not all of the calendar, the bound included.
C10_Witness ==
    /\ cal_last.op = "range_search"
    /\ Len(cal_last.result.value) >= 2
    /\ Len(cal_last.result.value) < Len(cal_last.pre)
    /\ cal_last.result.value[Len(cal_last.result.value)] = cal_last.arg

\* The last call re-added the timestamp that the call before it removed.
ReAdded ==
    /\ cal_last.op = "add_timestamp"
    /\ cal_last.prior.removed
    /\ cal_last.prior.t = cal_last.t

\* x stands inside the calendar, between two neighbours equally far from it.
Midway(timestamps, x) ==
    \E i \in 2..(Len(timestamps) - 1) :
        /\ timestamps[i] = x
        /\ timestamps[i + 1] - x = x - timestamps[i - 1]

\* C11 as claimed: for every calendar and every timestamp x in it,
\* remove_timestamp(x) followed by add_timestamp(x) succeeds and restores
\* the original sorted sequence exactly.
C11_RemoveAddRestores ==
    ReAdded =>
        /\ ~cal_last.result.raised
        /\ cal_timestamps = cal_last.prior.pre

\* C11 as amended: remove_timestamp(x) followed by add_timestamp(x) succeeds
\* and restores the original sequence exactly when x is neither the first
\* nor the last timestamp and its two neighbours are equally far from it;
\* for every other member x the add raises ValueError and the calendar stays
\* without x.
C11_RemoveAddRestoresMidway ==
    ReAdded =>
        IF Midway(cal_last.prior.pre, cal_last.t)
        THEN /\ ~cal_last.result.raised
             /\ cal_timestamps = cal_last.prior.pre
        ELSE /\ cal_last.result = ValueError
             /\ cal_timestamps = cal_last.pre
             /\ cal_last.t \notin Elems(cal_timestamps)

\* A timestamp with a smaller and a larger neighbour on both sides was
\* removed and re-added, and the calendar of four or more is back.
C11_Witness ==
    /\ ReAdded
    /\ Midway(cal_last.prior.pre, cal_last.t)
    /\ Len(cal_timestamps) >= 4
    /\ cal_timestamps = cal_last.prior.pre

\* C12: starting from a uniformly spaced calendar, after any sequence of
\* add_timestamp and remove_timestamp calls that return without error the
\* calendar is still uniformly spaced.
C12_StaysUniform == Uniform(cal_timestamps)

\* C13: add_timestamp(x) raises ValueError whenever x has no left or no
\* right neighbour (x <= first timestamp, x > last timestamp, or the
\* calendar is empty); whenever add_timestamp or remove_timestamp raises,
\* the timestamp sequence is left unchanged; remove_timestamp(x) raises
\* ValueError iff x is not a member.
C13_EditErrors ==
    /\ cal_last.op = "add_timestamp" =>
         ((\/ cal_last.pre = <<>>
           \/ cal_last.t <= cal_last.pre[1]
           \/ cal_last.t > cal_last.pre[Len(cal_last.pre)])
          => cal_last.result = ValueError)
    /\ (cal_last.op \in {"add_timestamp", "remove_timestamp"}
         /\ cal_last.result.raised)
        => cal_timestamps = cal_last.pre
    /\ cal_last.op = "remove_timestamp" =>
         /\ cal_last.result = ValueError <=> cal_last.t \notin Elems(cal_last.pre)
         /\ ~cal_last.result.raised =>
              /\ Elems(cal_timestamps) = Elems(cal_last.pre) \ {cal_last.t}
              /\ Len(cal_timestamps) = Len(cal_last.pre) - 1

\* An add beyond the last timestamp of a calendar of three was rejected and
\* left the calendar as it was.
C13_Witness ==
    /\ cal_last.op = "add_timestamp"
    /\ Len(cal_last.pre) >= 3
    /\ cal_last.t > cal_last.pre[Len(cal_last.pre)]
    /\ cal_last.result = ValueError
    /\ cal_timestamps = cal_last.pre

\* ------------------------------------------------------------------------
\* Properties of iter_data
\* ------------------------------------------------------------------------
\* The loaded keys that are neither the first nor the last loaded key and
\* lie in [run_start_date, run_end_date).
InWindowKeys ==
    {k \in DOMAIN data_dict :
        /\ \E a \in DOMAIN data_dict : a < k
        /\ \E b \in DOMAIN data_dict : b > k
        /\ config.run_start_date <= k
        /\ k < config.run_end_date}

\* The smallest element of a non-empty set of integers.
Least(S) == CHOOSE x \in S : \A y \in S : x <= y

\* The largest element of a non-empty set of integers.
Greatest(S) == CHOOSE x \in S : \A y \in S : x >= y

\* The rows that a series has at the loaded keys before t, oldest first.
RowsBefore(symbol, t) ==
    LET before == SortedSeq({k \in DOMAIN data_dict :
                                k < t /\ symbol \in DOMAIN data_dict[k]})
    IN  [j \in 1..Len(before) |-> data_dict[before[j]][symbol]]

\* One yield of iter_data: the tuple is that of the smallest in-window key
\* after the last yielded one, its next_timestamp is the following loaded
\* key, and the observed data ends with the rows of the key before it,
\* whether that key was yielded or not.
C14_Step ==
    LET later == {k \in InWindowKeys : k > step.timestamp}
    IN  /\ later # {}
        /\ step'.timestamp = Least(later)
        /\ step'.next_timestamp
             = Least({k \in DOMAIN data_dict : k > step'.timestamp})
        /\ \A symbol \in Symbols :
             LET window == step'.observed_data[symbol]
             IN  window[Len(window)].Timestamp
                   = Greatest({k \in DOMAIN data_dict : k < step'.timestamp})

\* iter_data ends only when no in-window key is left, and has yielded
\* in-window keys only.
C14_State ==
    /\ step.timestamp # 0 => step.timestamp \in InWindowKeys
    /\ status = "done" => {k \in InWindowKeys : k > step.timestamp} = {}

\* C14: iter_data yields, in strictly increasing timestamp order, exactly
\* one tuple for each loaded key that is neither the first nor the last
\* loaded key and lies in [run_start_date, run_end_date); the tuple's
\* next_timestamp is the immediately following loaded key; keys outside the
\* window are never yielded but still advance the rolling observed data.
C14_YieldsInWindow == [][C14_Step]_vars /\ []C14_State

\* A run has ended whose window left out interior keys on both sides: one
\* tuple was yielded and the observed data went on to the last loop index.
C14_Witness ==
    /\ status = "done"
    /\ step.timestamp # 0
    /\ \E k \in DOMAIN data_dict :
          k < step.timestamp /\ k > Keys[1] /\ k \notin InWindowKeys
    /\ \E k \in DOMAIN data_dict :
          k > step.timestamp /\ k < Keys[Len(Keys)] /\ k \notin InWindowKeys
    /\ \A symbol \in Symbols :
          observed_data[symbol][Len(observed_data[symbol])].Timestamp
            = Keys[Len(Keys) - 2]

C16_StrategiesSeeNoFuture ==
    \A k \in 1..Len(step.signals_by_strategy) :
        LET given == step.signals_by_strategy[k].given
        IN  /\ DOMAIN given = {"timestamp", "observed_data"}
            /\ given.timestamp = step.timestamp
            /\ given.observed_data = step.observed_data
            /\ given.observed_data # step.future_data
            /\ \A symbol \in DOMAIN given.observed_data :
                 \A j \in 1..Len(given.observed_data[symbol]) :
                    given.observed_data[symbol][j].Timestamp <= step.timestamp

\* Both strategies were handed observed data of two rows a series at a
\* timestamp that has a future window of two rows.
C16_Witness ==
    /\ Len(step.signals_by_strategy) = 2
    /\ \A symbol \in Symbols :
          /\ Len(step.signals_by_strategy[1].given.observed_data[symbol]) >= 2
          /\ Len(step.future_data[symbol]) >= 2

\* The symbols with DAILY_OHLC data in the data of one timestamp.
OhlcSymbols(data) ==
    IF "DAILY_OHLC" \in DOMAIN data THEN DOMAIN data.DAILY_OHLC ELSE {}

\* Two data sets have DAILY_OHLC data for the same symbols and agree on
\* every symbol's Open.
AgreeOnOpen(a, b) ==
    /\ OhlcSymbols(a) = OhlcSymbols(b)
    /\ \A symbol \in OhlcSymbols(a) :
          a.DAILY_OHLC[symbol].Open = b.DAILY_OHLC[symbol].Open

\* C17: backtest live data for timestamp t exposes, for each symbol with
\* DAILY_OHLC data at t, only the Open field and nothing for other data
\* types: two loaded data sets that agree on every symbol's Open at t yield
\* identical live data at t, whatever their High/Low/Close/Volume or news
\* rows.
C17_LiveDataOnlyOpen ==
    live_last.called =>
        /\ DOMAIN live_last.live \subseteq {"DAILY_OHLC"}
        /\ \A data_type \in DOMAIN live_last.live :
             /\ DOMAIN live_last.live[data_type] = OhlcSymbols(live_last.data)
             /\ \A symbol \in DOMAIN live_last.live[data_type] :
                  /\ DOMAIN live_last.live[data_type][symbol] = {"Open"}
                  /\ live_last.live[data_type][symbol].Open
                       = live_last.data.DAILY_OHLC[symbol].Open
        /\ \A other \in TypedDays :
             AgreeOnOpen(live_last.data, other)
             => _get_clean_live_data(other) = live_last.live

\* Live data was built from data with news and two DAILY_OHLC rows whose
\* Close differs from their Open.
C17_Witness ==
    /\ live_last.called
    /\ "NEWS" \in DOMAIN live_last.data
    /\ DOMAIN live_last.data.NEWS # {}
    /\ OhlcSymbols(live_last.data) = Symbols
    /\ \A symbol \in Symbols :
          live_last.data.DAILY_OHLC[symbol].Close
            # live_last.data.DAILY_OHLC[symbol].Open
    /\ DOMAIN live_last.live = {"DAILY_OHLC"}

\* The series that have a row at each loaded timestamp.
FullSeries == {symbol \in Symbols :
                  \A t \in DOMAIN data_dict : symbol \in DOMAIN data_dict[t]}

\* The rows that a series has at the loaded keys from t on, oldest first.
RowsFrom(symbol, t) ==
    LET from == SortedSeq({k \in DOMAIN data_dict :
                              k >= t /\ symbol \in DOMAIN data_dict[k]})
    IN  [j \in 1..Len(from) |-> data_dict[from[j]][symbol]]

\* C18: for every loaded timestamp t and every series that has a row at
\* each loaded timestamp, the precomputed future-data window at t consists
\* of the rows at t and the immediately following loaded timestamps in
\* ascending time order, truncated to lookahead entries, and this value is
\* identical for every chunk count max_cores >= 1 and every lookahead >= 1
\* (a single-chunk run and a multi-chunk run agree at every timestamp).
C18_FutureWindows ==
    status = "precomputed" =>
        /\ DOMAIN precomputed_future_data = DOMAIN data_dict
        /\ \A t \in DOMAIN data_dict, symbol \in FullSeries :
             /\ precomputed_future_data[t][symbol]
                  = DfHead(RowsFrom(symbol, t), config.lookahead)
             /\ precomputed_future_data[t][symbol]
                  = _precompute_future_data(data_dict, Keys,
                                            config.lookahead, 1)[t][symbol]

\* The signal executed on its own, the Open price it was filled at, the
\* weight of its strategy, and the trades that the execution returned.
ExecutedSignal == step.signals_by_strategy[1].signals[1]
ExecutedOpen == data_dict[step.timestamp][ExecutedSignal.symbol].Open
ExecutedWeight ==
    allocation_table[step.timestamp][ExecutedSignal.strategy_name].weight
ExecutedTrades ==
    IF step.trades_by_strategy = <<>> THEN <<>>
    ELSE step.trades_by_strategy[1].items
ExecutedSign == IF ExecutedSignal.signal_type = "z_score_long" THEN 1 ELSE -1

\* floor(weight * trade_size_in_dollars / open_price * signal_strength)
FlooredProduct ==
    (ExecutedWeight.num * TradeSizeInDollars * ExecutedSignal.signal_strength.num)
      \div (ExecutedWeight.den * ExecutedOpen * ExecutedSignal.signal_strength.den)

\* floor(weight * trade_size_in_dollars / open_price): whole shares at full
\* strength.
WholeShares ==
    (ExecutedWeight.num * TradeSizeInDollars)
      \div (ExecutedWeight.den * ExecutedOpen)

\* C19 as stated: the quantity of the trade opened for a long signal is
\* floor(weight * trade_size_in_dollars / open_price * signal_strength), and
\* the one opened for a short signal is its exact negation.
C19_QuantityIsFlooredProduct ==
    status = "executed" =>
        \A j \in 1..Len(ExecutedTrades) :
            ExecutedTrades[j].quantity = ExecutedSign * FlooredProduct

\* C19: the quantity of the trade opened for a long signal is the whole
\* number of shares floor(weight * trade_size_in_dollars / open_price)
\* times the signal strength, rounded down again; the one opened for a short
\* signal is its exact negation; no trade is opened when the whole number
\* of shares is zero.
C19_QuantityIsFlooredTwice ==
    status = "executed" =>
        IF WholeShares = 0
        THEN ExecutedTrades = <<>>
        ELSE /\ Len(ExecutedTrades) = 1
             /\ ExecutedTrades[1].quantity =
                  ExecutedSign *
                    ((WholeShares * ExecutedSignal.signal_strength.num)
                       \div ExecutedSignal.signal_strength.den)

\* A short signal was executed at a strength that does not divide the whole
\* number of shares.
C19_Witness ==
    /\ status = "executed"
    /\ ExecutedSign = -1
    /\ Len(ExecutedTrades) = 1
    /\ ExecutedTrades[1].quantity < 0
    /\ (WholeShares * ExecutedSignal.signal_strength.num)
          % ExecutedSignal.signal_strength.den # 0

\* C20: a signal whose resulting quantity is zero produces no trade:
\* execute_trades never returns, nor keeps in open_trades, a trade of
\* quantity 0.
C20_NoZeroQuantityTrade ==
    /\ \A k \in 1..Len(step.trades_by_strategy) :
          \A j \in 1..Len(step.trades_by_strategy[k].items) :
              step.trades_by_strategy[k].items[j].quantity # 0
    /\ \A name \in Strategies :
          \A j \in 1..Len(processors[name].open_trades) :
              processors[name].open_trades[j].quantity # 0

\* The processor that the calls of _process_position are made on, the
\* logged call's check of the fill price against the limit price, and the
\* signed quantity that the call applies when the check passes.
Logged == processors[StrategyList[1]]
LoggedPasses ==
    \/ call_log.trade.quantity > 0
         /\ call_log.trade_price <= call_log.trade.limit_price
    \/ call_log.trade.quantity < 0
         /\ call_log.trade_price >= call_log.trade.limit_price
LoggedApplied ==
    IF call_log.action = "OPEN" THEN call_log.trade.quantity
    ELSE -call_log.trade.quantity

\* The positions of a processor in a symbol (none or one).
PositionsIn(pp, symbol) ==
    {pp.open_positions_by_symbol[k] : k \in
        {j \in 1..Len(pp.open_positions_by_symbol) :
            pp.open_positions_by_symbol[j].symbol = symbol}}

\* C21: when a trade passes the price/limit check, the symbol's position is
\* created at (quantity, fill price) if none exists, otherwise its quantity
\* is increased by the trade quantity and its cost basis becomes the
\* volume-weighted average (a position whose quantity returns to zero is
\* gone), and cash is decremented by quantity * fill price; after any
\* sequence of calls cash = starting_cash - sum over all applied opens and
\* closes of (signed applied quantity * fill price).
C21_PositionAndCash ==
    (status = "position" /\ call_log.count > 0) =>
        /\ Logged.cash = StartingCash - call_log.spent
        /\ LoggedPasses =>
             LET symbol == call_log.trade.symbol
                 before == PositionsIn(call_log.pre, symbol)
                 after  == PositionsIn(Logged, symbol)
             IN  /\ Logged.cash
                      = call_log.pre.cash - LoggedApplied * call_log.trade_price
                 /\ before = {} =>
                      after = {Position(symbol, LoggedApplied,
                                        Frac(call_log.trade_price, 1))}
                 /\ \A old \in before :
                      IF old.quantity + LoggedApplied = 0
                      THEN after = {}
                      ELSE \E new \in after :
                             /\ after = {new}
                             /\ new.quantity = old.quantity + LoggedApplied
                             /\ new.cost_basis.num * old.cost_basis.den
                                  * new.quantity
                                = new.cost_basis.den
                                  * (old.cost_basis.num * old.quantity
                                     + call_log.trade_price * LoggedApplied
                                       * old.cost_basis.den)

\* A trade that passed the check was added to an existing position at
\* another price, after an earlier call, and the average is not a whole
\* number.
C21_Witness ==
    /\ status = "position" /\ call_log.count > 1
    /\ LoggedPasses
    /\ \E old \in PositionsIn(call_log.pre, call_log.trade.symbol) :
          old.cost_basis # Frac(call_log.trade_price, 1)
    /\ \E new \in PositionsIn(Logged, call_log.trade.symbol) :
          new.cost_basis.den # 1
    /\ call_log.spent # 0

\* C22: a trade is applied only if fill price <= limit price for a buy
\* (quantity > 0) or fill price >= limit price for a sell (quantity < 0); a
\* trade that fails this check changes no position and no cash in that
\* call, yet is still returned (execute_trades appends what
\* _process_position returns to its list).
C22_FailedCheckChangesNothing ==
    (status = "position" /\ call_log.count > 0) =>
        /\ call_log.returned = call_log.trade
        /\ LoggedPasses \/ Logged = call_log.pre
        /\ (Logged.cash # call_log.pre.cash
              \/ Logged.open_positions_by_symbol
                   # call_log.pre.open_positions_by_symbol)
             => LoggedPasses

\* A buy above its limit price was refused on a processor that has a
\* position and has spent cash.
C22_Witness ==
    /\ status = "position" /\ call_log.count > 1
    /\ call_log.trade.quantity > 0
    /\ call_log.trade_price > call_log.trade.limit_price
    /\ call_log.pre.open_positions_by_symbol # <<>>
    /\ call_log.pre.cash # StartingCash
    /\ Logged = call_log.pre

\* The items of a symbol in a list of (strategy, items) pairs, in order.
RECURSIVE ItemsOf(_, _)
ItemsOf(raw, symbol) ==
    IF raw = <<>> THEN <<>>
    ELSE SelectSeq(raw[1].items, LAMBDA item : item.symbol = symbol)
         \o ItemsOf(Tail(raw), symbol)

\* The sum of the quantities of a list of items, and of quantity times the
\* numerator of the cost basis (the cost bases handed in are whole numbers).
RECURSIVE SumQuantity(_)
SumQuantity(items) ==
    IF items = <<>> THEN 0 ELSE items[1].quantity + SumQuantity(Tail(items))
RECURSIVE SumCost(_)
SumCost(items) ==
    IF items = <<>> THEN 0
    ELSE items[1].quantity * items[1].cost_basis.num + SumCost(Tail(items))

\* C23: for every symbol and any list of per-strategy positions with signed
\* quantities, the aggregated quantity equals the sum of all strategies'
\* quantities in that symbol and the aggregated cost basis equals
\* sum(quantity * cost basis) / sum(quantity); the per-strategy map
\* reproduces each strategy's own quantity and cost basis.
C23_AggregatedPositions ==
    (call_log.count > 0 /\ call_log.call = "AggregatedPositions") =>
        /\ ~call_log.result.error
        /\ \A i \in 1..Len(call_log.raw) :
             \A j \in 1..Len(call_log.raw[i].items) :
                LET position == call_log.raw[i].items[j]
                    items == ItemsOf(call_log.raw, position.symbol)
                    total == call_log.result.total[position.symbol]
                IN  /\ total.quantity = SumQuantity(items)
                    /\ total.cost_basis.num * SumQuantity(items)
                         = total.cost_basis.den * SumCost(items)
                    /\ call_log.result.by_strategy[call_log.raw[i].strategy]
                         [position.symbol] = position

\* A trade that follows the market convention: a buy at any price or a sell
\* at any price.
IsMarket(trade) ==
    \/ trade.limit_price = Infinity /\ trade.quantity > 0
    \/ trade.limit_price = 0 /\ trade.quantity < 0

\* The running aggregate quantity after the first n trades of a list: the
\* first trade as it is, a later trade of another sign netted, a later
\* trade of the same sign added if it follows the market convention.
RECURSIVE NettedQuantity(_, _)
NettedQuantity(trades, n) ==
    IF n = 1 THEN trades[1].quantity
    ELSE LET running == NettedQuantity(trades, n - 1)
         IN  IF Sign(trades[n].quantity) # Sign(running)
                  \/ IsMarket(trades[n])
             THEN running + trades[n].quantity
             ELSE running

\* C24: an incoming trade whose sign differs from the running aggregate's
\* sign is always netted (its quantity added); an incoming trade of the same
\* sign is added only if it is (limit = +infinity and quantity > 0) or
\* (limit = 0 and quantity < 0) and is otherwise ignored; consequently, for
\* trades that all follow the market convention the aggregated quantity per
\* symbol equals the sum of all strategies' trade quantities, and
\* mismatched trade types raise ValueError.
C24_AggregatedTrades ==
    (call_log.count > 0 /\ call_log.call = "AggregatedTrades") =>
        LET raw == call_log.raw
            All(symbol) == ItemsOf(raw, symbol)
        IN  /\ call_log.result.error
                 <=> \E symbol \in Symbols :
                        \E i \in 1..Len(All(symbol)), j \in 1..Len(All(symbol)) :
                            All(symbol)[i].trade_type # All(symbol)[j].trade_type
            /\ ~call_log.result.error =>
                 \A k \in 1..Len(raw) :
                    \A symbol \in {raw[k].items[j].symbol :
                                      j \in 1..Len(raw[k].items)} :
                       LET total == call_log.result.total[symbol]
                           mine  == ItemsOf(<<raw[k]>>, symbol)
                       IN  /\ total.quantity
                                = NettedQuantity(All(symbol), Len(All(symbol)))
                           /\ call_log.result.by_strategy[raw[k].strategy]
                                [symbol].quantity
                                = NettedQuantity(mine, Len(mine))
                           /\ (\A i \in 1..Len(All(symbol)) :
                                  IsMarket(All(symbol)[i]))
                                => total.quantity = SumQuantity(All(symbol))

\* Trades of both strategies were aggregated of which one was netted against
\* an aggregate of the other sign and one, of the sign of the aggregate and
\* off the market convention, was ignored.
C24_Witness ==
    /\ call_log.count > 0 /\ call_log.call = "AggregatedTrades"
    /\ ~call_log.result.error
    /\ Len(call_log.raw) = 2
    /\ LET trades == ItemsOf(call_log.raw, SymbolList[1])
       IN  /\ Len(trades) = 3
           /\ trades[1].quantity > 0
           /\ trades[2].quantity > 0 /\ ~IsMarket(trades[2])
           /\ trades[3].quantity < 0 /\ ~IsMarket(trades[3])
           /\ call_log.result.total[SymbolList[1]].quantity
                = trades[1].quantity + trades[3].quantity

\* C25: after each call of PortfolioManager.update that returns, its four
\* aggregates (total and per-strategy trades and positions) are a function
\* of that call's inputs only, independent of all earlier update calls, and
\* no call modifies any Trade or Position object it was given.
C25_PureAggregation ==
    (status = "manager" /\ call_log.count > 0) =>
        /\ call_log.trades_after = Flatten(call_log.trades_by_strategy)
        /\ call_log.positions_after = Flatten(call_log.positions_by_strategy)
        /\ ~call_log.raised =>
             /\ portfolio_manager.aggregated_trades
                  = AggregatedTrades(call_log.trades_by_strategy).total
             /\ portfolio_manager.aggregated_trades_by_strategy
                  = AggregatedTrades(call_log.trades_by_strategy).by_strategy
             /\ portfolio_manager.aggregated_positions
                  = AggregatedPositions(call_log.positions_by_strategy).total
             /\ portfolio_manager.aggregated_positions_by_strategy
                  = AggregatedPositions(call_log.positions_by_strategy)
                      .by_strategy

\* A second call returned that was given trades and positions of both
\* strategies in the first symbol only, the trades netted.
C25_Witness ==
    /\ status = "manager" /\ call_log.count > 1
    /\ ~call_log.raised
    /\ Len(call_log.trades_by_strategy) = 2
    /\ Len(call_log.positions_by_strategy) = 2
    /\ DOMAIN portfolio_manager.aggregated_trades = {SymbolList[1]}
    /\ DOMAIN portfolio_manager.aggregated_positions = {SymbolList[1]}
    /\ portfolio_manager.aggregated_trades[SymbolList[1]].quantity
         # call_log.trades_by_strategy[1].items[1].quantity

\* The strategies that the allocation table lists for a day, in the order
\* of the runner's list.
AllocatedOn(timestamp) ==
    SelectSeq(StrategyList,
              LAMBDA name : name \in DOMAIN allocation_table[timestamp])

\* The calls of a whole step for a day: generate_signals of every allocated
\* strategy, then execute_trades and update_positions strategy by strategy,
\* then the update of the PortfolioManager and that of the
\* PerformanceManager.
StepCalls(timestamp) ==
    LET allocated == AllocatedOn(timestamp)
    IN  [k \in 1..Len(allocated) |->
            [call |-> "generate_signals", strategy |-> allocated[k],
             timestamp |-> timestamp]]
        \o [m \in 1..(2 * Len(allocated)) |->
              [call |-> IF m % 2 = 1 THEN "execute_trades"
                        ELSE "update_positions",
               strategy |-> allocated[(m + 1) \div 2],
               timestamp |-> timestamp]]
        \o <<[call |-> "portfolio_manager.update", strategy |-> "",
              timestamp |-> timestamp],
             [call |-> "performance_manager.update", strategy |-> "",
              timestamp |-> timestamp]>>

IsPrefix(a, b) == Len(a) <= Len(b) /\ a = SubSeq(b, 1, Len(a))

\* The calls of the last step are the calls of a whole step for its day, in
\* that order, cut short only by a raise; no call is made in a run in which
\* iter_data yields nothing.
C26_State ==
    /\ (step.timestamp # 0 /\ step.timestamp \in DOMAIN allocation_table) =>
          /\ IsPrefix(step.calls, StepCalls(step.timestamp))
          /\ step.raised = "none" => step.calls = StepCalls(step.timestamp)
    /\ (\A i \in 1..(Len(Keys) - 2) : ~Yielded(i)) =>
          step = NoStep /\ status = "done"

\* A step is taken only after the step before it has returned from the
\* update of the PerformanceManager, and it is the step of the next
\* timestamp that iter_data yields.
C26_Step ==
    step' # step =>
        /\ step.raised = "none"
        /\ step.calls = <<>>
             \/ step.calls[Len(step.calls)].call = "performance_manager.update"
        /\ step.calls = <<>> <=> step = NoStep
        /\ step'.timestamp > step.timestamp
        /\ step'.timestamp = Keys[iter_index' + 1]
        /\ iter_index' > iter_index /\ Yielded(iter_index')
        /\ \A j \in (iter_index + 1)..(iter_index' - 1) : ~Yielded(j)

\* C26: BacktestMode.run processes the yielded timestamps one at a time in
\* the order yielded; within each timestamp the order is: generate_signals
\* for every allocated strategy, then execute_trades followed by
\* update_positions for each such strategy, then PortfolioManager.update
\* once, then PerformanceManager.update once; no action for a later
\* timestamp starts before PerformanceManager.update of the previous one
\* has finished, and with no yielded data none of these is called.
C26_StepOrder == [][C26_Step]_vars /\ []C26_State

\* A step of both strategies that made trades was processed to its end
\* after an earlier step.
C26_Witness ==
    /\ Len(step.calls) = 8
    /\ step.raised = "none"
    /\ step.trades_by_strategy # <<>>
    /\ step.timestamp > Keys[2]

\* The step of a day that the allocation table lacks makes no call and
\* leaves the processors, the aggregates and the PnL tables as the earlier
\* steps committed them.
C27_Step ==
    (step' # step /\ step'.timestamp \notin DOMAIN allocation_table) =>
        /\ status' = "error"
        /\ step'.raised = "_process_signals"
        /\ step'.calls = <<>>
        /\ step'.signals_by_strategy = <<>>
        /\ UNCHANGED <<processors, portfolio_manager, pnl_by_symbol,
                       pnl_by_strategy_by_symbol>>

\* _process_signals raises for the days that the allocation table lacks and
\* for no other day.
C27_State ==
    step.raised = "_process_signals"
      <=> (step # NoStep /\ step.timestamp \notin DOMAIN allocation_table)

\* C27: if a yielded timestamp has no entry in the allocation table,
\* BacktestMode.run raises ValueError for that timestamp before any strategy
\* generates signals, executes trades or updates positions for it, and
\* neither PortfolioManager.update nor PerformanceManager.update is called
\* for it; state committed for earlier timestamps is left as it was.
C27_MissingAllocationRaises == [][C27_Step]_vars /\ []C27_State

\* The run was aborted at a day without an entry after a step that had
\* opened trades and written PnL rows.
C27_Witness ==
    /\ status = "error"
    /\ step.raised = "_process_signals"
    /\ step.timestamp \notin DOMAIN allocation_table
    /\ pnl_by_symbol # EmptyDict
    /\ \E name \in Strategies : processors[name].open_trades # <<>>
    /\ portfolio_manager.aggregated_trades # EmptyDict

\* The days of the loaded table whose names differ from the first day's.
DiffersFromFirst(items) ==
    {i \in 1..Len(items) : Elems(items[i].names) # Elems(items[1].names)}

\* C28: ConfigBuilder.load_configurations raises ValueError whenever the set
\* of strategy names of any day in the allocation table differs from the set
\* of the first day, a day that lists no strategy included, and returns
\* normally only if all days have the same set of strategy names.
C28_InconsistentNamesRaise ==
    (status = "load" /\ call_log.count = 1) =>
        (call_log.result.raised = "ValueError"
            <=> DiffersFromFirst(call_log.items) # {})

\* What the code does: it raises exactly when a day that lists some strategy
\* differs from the first day.
RaisesOnNamedDays ==
    (status = "load" /\ call_log.count = 1) =>
        (call_log.result.raised = "ValueError"
            <=> \E i \in DiffersFromFirst(call_log.items) :
                   call_log.items[i].names # <<>>)

\* The data types loaded at a timestamp of data_dict.
LoadedTypes(timestamp) == DOMAIN data_dict[timestamp][AssetClass]

\* C29: every timestamp key of DataManager.data_dict is a timestamp of the
\* configured calendar, for every data type declared in configuration: rows
\* whose Timestamp is not in the calendar never reach the loaded structure.
C29_KeysInCalendar ==
    (status = "data" /\ call_log.count = 1) =>
        \A timestamp \in DOMAIN data_dict :
            \A data_type \in LoadedTypes(timestamp) :
                timestamp \in Elems(cal_timestamps)

\* What the code does: the rows of the data types daily_ohlc and news are
\* in the calendar.
FilteredTypesInCalendar ==
    (status = "data" /\ call_log.count = 1) =>
        \A timestamp \in DOMAIN data_dict :
            LoadedTypes(timestamp) \cap {"daily_ohlc", "news"} # {}
                => timestamp \in Elems(cal_timestamps)

\* The fetch of the k-th slice of a symbol failed in the logged load.
LoggedFails(symbol, k) ==
    FetchFails(call_log.files[symbol][k],
               call_log.db_connections[Slices[k].provider_name])

\* The slices of a symbol and data type whose fetch succeeded and whose file
\* has a row of the timestamp that the filter of the data type lets pass.
Contributing(symbol, data_type, timestamp) ==
    {k \in 1..Len(Slices) :
        /\ Slices[k].data_type = data_type
        /\ ~LoggedFails(symbol, k)
        /\ \E i \in 1..Len(call_log.files[symbol][k].rows) :
              call_log.files[symbol][k].rows[i].Timestamp = timestamp
        /\ data_type \in {"daily_ohlc", "news"}
              => timestamp \in Elems(cal_timestamps)}

\* The row of data_dict for a timestamp, data type and symbol, None if the
\* structure has none.
LoadedRow(timestamp, data_type, symbol) ==
    IF timestamp \notin DOMAIN data_dict THEN None
    ELSE IF data_type \notin LoadedTypes(timestamp) THEN None
    ELSE DictGet(data_dict[timestamp][AssetClass][data_type], symbol)

\* The keys of the merged results of the logged load before they are sorted.
InsertedKeys ==
    _unpack_and_process_results(
        [r \in 1..Len(call_log.order) |->
            _load_symbol(call_log.order[r], cal_timestamps, call_log.files,
                         call_log.db_connections)],
        NoData, 1).keys

\* C30: a fetch failure (missing file, provider exception, unsupported
\* connection) for one symbol, data type and provider never aborts loading:
\* the slice contributes nothing, every slot of data_dict holds the row of
\* the last provider of its data type whose fetch succeeded and whose file
\* has that row, exactly as if the failed slices were not there, and the
\* keys of data_dict are in ascending order whatever the order of the
\* results of the symbols.
C30_FetchFailureIsEmptySlice ==
    (status = "data" /\ call_log.count = 1) =>
        /\ \A symbol \in Symbols, i \in 1..Len(DataTypeList),
              timestamp \in Elems(MarketDays) \cup {OffDay} :
              LET slices == Contributing(symbol, DataTypeList[i], timestamp)
                  last == CHOOSE k \in slices : \A j \in slices : j <= k
              IN  LoadedRow(timestamp, DataTypeList[i], symbol) =
                     IF slices = {} THEN None
                     ELSE FileRow(symbol, Slices[last], timestamp)
        /\ Elems(call_log.keys) = DOMAIN data_dict
        /\ \A i \in 1..(Len(call_log.keys) - 1) :
              call_log.keys[i] < call_log.keys[i + 1]

\* A load in which the fetch of a file with rows failed on its connection
\* and the fetch of a missing file failed, rows of both symbols were loaded,
\* and the results were merged in an order that inserted a later day first.
C30_Witness ==
    /\ status = "data" /\ call_log.count = 1
    /\ \E symbol \in Symbols, k \in 1..Len(Slices) :
          /\ call_log.db_connections[Slices[k].provider_name] = "sqlite"
          /\ call_log.files[symbol][k].rows # <<>>
    /\ \E symbol \in Symbols, k \in 1..Len(Slices) :
          ~call_log.files[symbol][k].exists
    /\ \A symbol \in Symbols :
          \E timestamp \in DOMAIN data_dict, data_type \in Elems(DataTypeList) :
              LoadedRow(timestamp, data_type, symbol) # None
    /\ InsertedKeys # call_log.keys

\* The sum of a column of a PnL table over the rows of a timestamp, 0 for a
\* symbol without a table.
PnlAt(tables, symbol, timestamp, column) ==
    IF symbol \in DOMAIN tables
    THEN GroupSum(tables[symbol], timestamp, column, 1)
    ELSE 0

\* The sum of PnlAt over the strategies k, k+1, ... of the list.
RECURSIVE StrategySum(_, _, _, _)
StrategySum(symbol, timestamp, column, k) ==
    IF k > Len(StrategyList) THEN 0
    ELSE PnlAt(OfStrategy(pnl_by_strategy_by_symbol, StrategyList[k]),
               symbol, timestamp, column)
         + StrategySum(symbol, timestamp, column, k + 1)

\* The per-strategy tables add up to the portfolio's for every symbol.
Reconciled ==
    \A symbol \in Symbols, day \in 1..2, column \in {"NewTrade", "Positional"} :
        StrategySum(symbol, day * SECONDS_IN_DAY, column, 1)
            = PnlAt(pnl_by_symbol, symbol, day * SECONDS_IN_DAY, column)

\* The trades handed to the logged update.
LoggedTrades == Flatten(call_log.trades_by_strategy)

\* C31: for every symbol and timestamp, the sum over strategies of the
\* per-strategy-per-symbol NewTrade and Positional PnL equals the
\* portfolio-level per-symbol NewTrade and Positional PnL, for any
\* combination of per-strategy trades and positions (any signs, any limit
\* prices) passed through PortfolioManager.update and then
\* PerformanceManager.update.
C31_PnlReconciles ==
    (status = "reconcile" /\ call_log.count = 1 /\ ~call_log.raised)
        => Reconciled

\* What the code does: the tables reconcile when every trade follows the
\* market convention.
MarketTradesReconcile ==
    (/\ status = "reconcile" /\ call_log.count = 1 /\ ~call_log.raised
     /\ \A i \in 1..Len(LoggedTrades) : IsMarket(LoggedTrades[i]))
        => Reconciled

\* The sum of the quantities of the trades j, j+1, ... of a list that are in
\* the symbol.
RECURSIVE OpenSum(_, _, _)
OpenSum(open_trades, symbol, j) ==
    IF j > Len(open_trades) THEN 0
    ELSE (IF open_trades[j].symbol = symbol THEN open_trades[j].quantity
          ELSE 0) + OpenSum(open_trades, symbol, j + 1)

\* C32: after every execute_trades step of a PortfolioProcessor driven by
\* signals, for each symbol the net quantity of its open position equals the
\* sum of the quantities of that symbol's trades currently in open_trades,
\* and the symbol has an entry in open_positions_by_symbol if and only if
\* that sum is non-zero.
C32_PositionIsSumOfOpenTrades ==
    \A name \in Strategies, symbol \in Symbols :
        LET pp == processors[name]
            held == PositionsIn(pp, symbol)
            sum == OpenSum(pp.open_trades, symbol, 1)
        IN  ~pp.error =>
               /\ Cardinality(held) <= 1
               /\ held # {} <=> sum # 0
               /\ \A position \in held : position.quantity = sum

\* The trades that execute_trades returned in the last step for a strategy.
StepTrades(name) ==
    UNION {Elems(step.trades_by_strategy[k].items) :
              k \in {j \in 1..Len(step.trades_by_strategy) :
                        step.trades_by_strategy[j].strategy = name}}

\* A processor holds two open trades of one symbol and its position after
\* the step closed an earlier trade of the symbol, and a processor holds an
\* open trade of quantity 0 in a symbol without a position.
C32_Witness ==
    /\ status # "error"
    /\ \E name \in Strategies, symbol \in Symbols :
          LET pp == processors[name]
          IN  /\ Cardinality({j \in 1..Len(pp.open_trades) :
                                 pp.open_trades[j].symbol = symbol}) >= 2
              /\ PositionsIn(pp, symbol) # {}
              /\ \E trade \in StepTrades(name) :
                    /\ trade.symbol = symbol
                    /\ trade.timestamp < step.timestamp
    /\ \E name \in Strategies, symbol \in Symbols :
          LET pp == processors[name]
          IN  /\ \E j \in 1..Len(pp.open_trades) :
                    /\ pp.open_trades[j].symbol = symbol
                    /\ pp.open_trades[j].quantity = 0
              /\ PositionsIn(pp, symbol) = {}

\* The trades of a list that are in the symbol.
TradesIn(open_trades, symbol) ==
    SelectSeq(open_trades, LAMBDA trade : trade.symbol = symbol)

\* No position of a processor has the quantity 0.
C33_State ==
    \A name \in Strategies :
        \A k \in 1..Len(processors[name].open_positions_by_symbol) :
            processors[name].open_positions_by_symbol[k].quantity # 0

\* A symbol without a position and without an open trade gets the position
\* of the one trade that a step opens in it, and a symbol whose one open
\* trade is closed by a step that opens none in it has no position after
\* the step.
C33_Step ==
    \A name \in Strategies, symbol \in Symbols :
        LET before == TradesIn(processors[name].open_trades, symbol)
            after  == TradesIn(processors'[name].open_trades, symbol)
        IN  ~processors'[name].error =>
              /\ (/\ before = <<>> /\ Len(after) = 1
                  /\ after[1].quantity # 0)
                    => \E position \in PositionsIn(processors'[name], symbol) :
                          position.quantity = after[1].quantity
              /\ (Len(before) = 1 /\ after = <<>>)
                    => PositionsIn(processors'[name], symbol) = {}

\* C33: open_positions_by_symbol never contains a position whose quantity is
\* 0: a position is deleted in the same step in which its net quantity
\* returns to zero, so a symbol with a single opened trade goes no-position
\* -> open -> no-position, being absent again right after the trade's expiry
\* close.
C33_NoZeroPosition == [][C33_Step]_vars /\ []C33_State

\* The last step closed the one trade of a symbol that a processor had
\* opened, a trade of a non-zero quantity, and the processor, which recorded
\* the position in an earlier step, has no position in the symbol.
C33_Witness ==
    \E name \in Strategies, symbol \in Symbols :
        LET pp == processors[name]
        IN  /\ status # "error"
            /\ TradesIn(pp.open_trades, symbol) = <<>>
            /\ PositionsIn(pp, symbol) = {}
            /\ \E trade \in StepTrades(name) :
                  /\ trade.symbol = symbol
                  /\ trade.quantity # 0
                  /\ trade.timestamp < step.timestamp
            /\ Cardinality({k \in 1..Len(pp.positions_df) :
                               pp.positions_df[k].Symbol = symbol}) = 1

\* How many times execute_trades returned the trade to the step st for the
\* strategy.
TimesReturned(st, name, trade) ==
    Cardinality({pair \in UNION {{<<k, j>> :
                                     j \in 1..Len(st.trades_by_strategy[k].items)} :
                                 k \in 1..Len(st.trades_by_strategy)} :
                    /\ st.trades_by_strategy[pair[1]].strategy = name
                    /\ st.trades_by_strategy[pair[1]].items[pair[2]] = trade})

\* A step of a processor that does not raise: an open trade is either kept
\* and not returned, or dropped, returned once and expired at the step's
\* timestamp; the trades opened by the step are returned once and kept; and
\* open_trades holds no other trade and no trade twice.
C34_Step ==
    \A name \in Strategies :
        LET before == processors[name].open_trades
            after  == processors'[name].open_trades
        IN  (step' # step /\ step'.raised # "_process_signals"
             /\ ~processors'[name].error) =>
              /\ \A trade \in Elems(before) :
                    \/ /\ trade \in Elems(after)
                       /\ TimesReturned(step', name, trade) = 0
                    \/ /\ trade \notin Elems(after)
                       /\ TimesReturned(step', name, trade) = 1
                       /\ step'.timestamp
                            >= trade.timestamp + config.holding_period
              /\ \A trade \in Elems(after) \ Elems(before) :
                    trade.timestamp = step'.timestamp
              /\ \A trade \in StepTrades(name)' :
                    trade.timestamp = step'.timestamp
                        => /\ trade \in Elems(after)
                           /\ TimesReturned(step', name, trade) = 1
              /\ \A i \in 1..Len(after), j \in 1..Len(after) :
                    after[i] = after[j] => i = j

\* Every open trade was opened by the last step or had not expired at the
\* last processed timestamp.
C34_State ==
    \A name \in Strategies : \A trade \in Elems(processors[name].open_trades) :
        /\ trade.timestamp <= step.timestamp
        /\ ~processors[name].error =>
              \/ trade.timestamp = step.timestamp
              \/ step.timestamp < trade.timestamp + config.holding_period

\* C34: a trade is never closed at a processed timestamp earlier than
\* trade.timestamp + holding period, is closed at most once, remains in
\* open_trades on every step until the step that closes it, and a trade
\* opened in a step is not closed within that same step even when the
\* holding period is 0.
C34_ClosedOnceAtExpiry == [][C34_Step]_vars /\ []C34_State

\* With a holding period of 0 the last step returned a trade it opened,
\* which is still open, and a trade of the step before, which it closed.
C34_Witness ==
    /\ config.holding_period = 0
    /\ status # "error"
    /\ \E name \in Strategies :
          /\ \E trade \in Elems(processors[name].open_trades) :
                /\ trade.timestamp = step.timestamp
                /\ TimesReturned(step, name, trade) = 1
          /\ \E trade \in StepTrades(name) :
                /\ trade.timestamp < step.timestamp
                /\ trade \notin Elems(processors[name].open_trades)

FailedSignalTradeNeverApplied ==
    (/\ status = "expiry" /\ call_log.count >= 1 /\ ~call_log.applied
     /\ call_log.trade.limit_price
           = (IF call_log.trade.quantity > 0 THEN Infinity ELSE 0)) =>
        /\ processors[StrategyList[1]].open_positions_by_symbol = <<>>
        /\ processors[StrategyList[1]].cash = StartingCash

\* What a consumer sees through the observed-data element of a yielded
\* tuple: iter_data yields self.observed_data itself, the one dictionary
\* that _update_observed_data assigns into, so the element of every tuple
\* shows the current contents of the field.
SeenThroughYielded == observed_data

\* C36: the observed-data element of a tuple yielded by iter_data is a
\* snapshot: the contents a consumer sees through it at timestamp t are not
\* changed by advancing the iterator to later timestamps.
C36_ObservedIsSnapshot ==
    [][(step # NoStep /\ step' # step)
          => SeenThroughYielded' = step.observed_data]_vars

\* What the code does: while the run goes on, the consumer sees through the
\* element of an earlier tuple what the tuple of the current step shows.
YieldedShowsCurrent ==
    [][(step' # step /\ status' = "running")
          => SeenThroughYielded' = step'.observed_data]_vars

\* The loop index of iter_data up to which the observed data has been
\* updated: that of the last yield, or the last index of the loop once the
\* generator is exhausted.
LoopIndex == IF status = "done" THEN Len(Keys) - 2 ELSE iter_index

\* The rows of a series appended so far, oldest first: those at the loaded
\* keys before the key of the loop index.
RowsSeen(symbol) ==
    IF LoopIndex < 1 THEN <<>> ELSE RowsBefore(symbol, Keys[LoopIndex + 1])

\* C37: for lookback >= 1, after every iteration step each observed series
\* holds exactly the most recent min(lookback, k) rows appended to it so far
\* (k = number of rows seen for that series), in chronological order; its
\* length never exceeds lookback.
C37_RollingWindow ==
    config.lookback >= 1 =>
        \A symbol \in Symbols :
            LET window == WindowOf(observed_data, symbol)
                k == Len(RowsSeen(symbol))
                n == Min(config.lookback, k)
            IN  /\ Len(window) = n
                /\ Len(window) <= config.lookback
                /\ \A j \in 1..n : window[j] = RowsSeen(symbol)[k - n + j]
                /\ \A j \in 1..(n - 1) :
                      window[j].Timestamp < window[j + 1].Timestamp

\* A series of which more rows were seen than a lookback of two rows keeps.
C37_Witness ==
    /\ config.lookback >= 2
    /\ step # NoStep
    /\ \E symbol \in Symbols :
          /\ Len(RowsSeen(symbol)) > config.lookback
          /\ Len(WindowOf(observed_data, symbol)) = config.lookback

\* The key indices that a worker walks for one chunk: range(end_idx,
\* start_idx - 1, -1) of _precompute_future_data_worker.
ChunkIndices(arg) == arg.start_idx..arg.end_idx

\* The nominal chunk size of _precompute_future_data.
ChunkSize == (Len(Keys) + config.max_cores - 1) \div config.max_cores

\* The chunks of the precomputation that has run.
ChunkArgs == precompute_future_data_args(Keys, config.max_cores)

\* The workers' results of the precomputation that has run.
ChunkResults ==
    WorkerResults(data_dict, Keys, config.lookahead, config.max_cores)

\* The chunks are max_cores index ranges that start one chunk size after
\* each other, are pairwise disjoint and together hold exactly the key
\* indices 0..n-1.
ChunksPartition ==
    /\ Len(ChunkArgs) = config.max_cores
    /\ \A c \in 1..config.max_cores :
          /\ ChunkArgs[c].start_idx = (c - 1) * ChunkSize
          /\ ChunkIndices(ChunkArgs[c]) \subseteq 0..(Len(Keys) - 1)
    /\ \A c \in 1..config.max_cores : \A d \in 1..config.max_cores :
          c # d => ChunkIndices(ChunkArgs[c]) \cap ChunkIndices(ChunkArgs[d]) = {}
    /\ UNION {ChunkIndices(ChunkArgs[c]) : c \in 1..config.max_cores}
         = 0..(Len(Keys) - 1)

\* The results in another order: a permutation of the chunk numbers.
Reordered(order) == [c \in 1..config.max_cores |-> ChunkResults[order[c]]]

\* The orders in which the results can be merged.
MergeOrders ==
    {order \in [1..config.max_cores -> 1..config.max_cores] :
        \A c \in 1..config.max_cores : \E d \in 1..config.max_cores :
            order[d] = c}

\* Every loaded timestamp has exactly one entry, every entry of every worker
\* result is in the merged dictionary, and the merge gives the same
\* dictionary in every order of the results.
MergeKeepsAll ==
    /\ DOMAIN precomputed_future_data = DOMAIN data_dict
    /\ \A c \in 1..config.max_cores :
          /\ DOMAIN ChunkResults[c]
               = {Keys[i + 1] : i \in ChunkIndices(ChunkArgs[c])}
          /\ \A t \in DOMAIN ChunkResults[c] :
                precomputed_future_data[t] = ChunkResults[c][t]
    /\ \A t \in DOMAIN data_dict :
          Cardinality({c \in 1..config.max_cores :
                          t \in DOMAIN ChunkResults[c]}) = 1
    /\ \A order \in MergeOrders :
          MergeChunks(Reordered(order), 1, EmptyDict) = precomputed_future_data

\* C38: _precompute_future_data splits the key indices 0..n-1 into max_cores
\* contiguous index ranges of size ceil(n/max_cores) each that are pairwise
\* disjoint and together cover every index, for every n >= 0 and
\* max_cores >= 1; every loaded timestamp gets exactly one future-data entry
\* and the first-writer-wins merge never discards a worker result, whatever
\* order the results are merged in.
C38_ChunksOfCeilSize ==
    status = "precomputed" =>
        /\ ChunksPartition
        /\ \A c \in 1..config.max_cores :
              Cardinality(ChunkIndices(ChunkArgs[c])) = ChunkSize
        /\ MergeKeepsAll

\* C38 as the code has it: ceil(n/max_cores) is the distance between the
\* starts of the ranges and the most indices a range holds; the ranges before
\* the one that reaches n - 1 are full, that one holds the rest, and the
\* ranges after it are empty.
C38_ChunksUpToCeilSize ==
    status = "precomputed" =>
        /\ ChunksPartition
        /\ \A c \in 1..config.max_cores :
              Cardinality(ChunkIndices(ChunkArgs[c]))
                = IF c * ChunkSize <= Len(Keys) THEN ChunkSize
                  ELSE IF (c - 1) * ChunkSize < Len(Keys)
                       THEN Len(Keys) - (c - 1) * ChunkSize
                       ELSE 0
        /\ MergeKeepsAll

\* A precomputation with more cores than keys, and one whose last chunk is
\* shorter than the others: both have run in some behaviour, so the witness
\* is a precomputed state of either kind with a non-full chunk.
C38_Witness ==
    /\ status = "precomputed"
    /\ config.max_cores >= 2
    /\ Len(Keys) >= 1
    /\ \E c \in 1..config.max_cores :
          Cardinality(ChunkIndices(ChunkArgs[c])) < ChunkSize
    /\ DOMAIN precomputed_future_data = DOMAIN data_dict

\* C39: after any sequence of add_timestamp and remove_timestamp calls,
\* successful or failing, on a sorted duplicate-free calendar, the timestamp
\* sequence is still strictly increasing and so duplicate-free; in
\* particular add_timestamp of a value already present raises ValueError and
\* leaves the calendar as it was.
C39_StaysSortedDistinct ==
    /\ \A i \in 1..(Len(cal_timestamps) - 1) :
          cal_timestamps[i] < cal_timestamps[i + 1]
    /\ Cardinality(Elems(cal_timestamps)) = Len(cal_timestamps)
    /\ (cal_last.op = "add_timestamp" /\ cal_last.t \in Elems(cal_last.pre))
        => /\ cal_last.result = ValueError
           /\ cal_timestamps = cal_last.pre

\* An add of a timestamp that the calendar already held between its edges,
\* after a remove_timestamp that returned: it was rejected.
C39_Witness ==
    /\ cal_last.op = "add_timestamp"
    /\ cal_last.prior.removed
    /\ Len(cal_last.pre) >= 3
    /\ cal_last.t \in Elems(cal_last.pre)
    /\ cal_last.t > cal_last.pre[1]
    /\ cal_last.t < cal_last.pre[Len(cal_last.pre)]
    /\ cal_last.result = ValueError

====
